---- MODULE Spec2Model ----
(***************************************************************************)
(* The ChatBet query-understanding and conversational betting engine:      *)
(* the upstream data client (src/app/api_client.py), the entity extractor  *)
(* and reconciler (src/app/nlp_processor.py) and the chatbot with its      *)
(* per-session context store and pending-bet state machine                 *)
(* (src/app/chatbot.py).                                                   *)
(*                                                                         *)
(* Python values are modelled as tagged records (JNull, JNum, JDec, JBool, *)
(* JStr, JList, JDict).  A Python str is the sequence of its code points,  *)
(* so that lower(), the `in` substring test and the regular expressions    *)
(* are computed on the text; Str(<<"s", "U+00ED">>) is the str written     *)
(* with these characters, <<115, 237>>.  A dict is the sequence            *)
(* of its <<key, value>> pairs in insertion order, and its keys are strs   *)
(* (K_home_team is the key 'home_team').  Decimal prices and winnings      *)
(* are fixed-point hundredths (JDec(210) is 2.1).  A Python call that may  *)
(* raise yields a record with a `raised` field.                            *)
(***************************************************************************)
EXTENDS Integers, Sequences, FiniteSets, TLC

VARIABLES
    contexts,      \* ConversationContextManager.contexts: session id -> context dict
    tasks,         \* the requests in flight, each suspended at a network call
                   \* (a request at place_bet is a placement call in flight)
    last,          \* the step taken last: operation, inputs, outcome
    model_loaded,  \* whether the module-level `model` (Gemini) is not None
    place_bet_bound \* whether api_client has a place_bet attribute

vars == <<contexts, tasks, last, model_loaded, place_bet_bound>>

----------------------------------------------------------------------------
(* Characters and strings.  A str is the sequence of its code points; the   *)
(* tables of this section are those of the Unicode database of the         *)
(* interpreter (unicodedata.unidata_version 14.0.0).                        *)

aAcute == "U+00E1"
eAcute == "U+00E9"
iAcute == "U+00ED"
oAcute == "U+00F3"
uAcute == "U+00FA"
nTilde == "U+00F1"
cCedilla == "U+00E7"
Euro == "U+20AC"
Pound == "U+00A3"
GraveAccent == "U+0060"

\* the characters the texts of the model are written with: the printable
\* characters of ASCII from the space to the tilde, without the grave accent
\* (which no string of this notation can hold), and the named characters
Chars ==
    <<" ", "!", "\"", "#", "$", "%", "&", "'", "(", ")", "*", "+", ",", "-", ".", "/", "0",
      "1", "2", "3", "4", "5", "6", "7", "8", "9", ":", ";", "<", "=", ">", "?", "@", "A",
      "B", "C", "D", "E", "F", "G", "H", "I", "J", "K", "L", "M", "N", "O", "P", "Q", "R",
      "S", "T", "U", "V", "W", "X", "Y", "Z", "[", "\\", "]", "^", "_", "a", "b", "c", "d",
      "e", "f", "g", "h", "i", "j", "k", "l", "m", "n", "o", "p", "q", "r", "s", "t", "u",
      "v", "w", "x", "y", "z", "{", "|", "}", "~", "U+00E1", "U+00E9", "U+00ED", "U+00F3",
      "U+00FA", "U+00F1", "U+00E7", "U+20AC", "U+00A3", "U+0060">>

\* their code points, in the same order
Codes ==
    <<32, 33, 34, 35, 36, 37, 38, 39, 40, 41, 42, 43, 44, 45, 46, 47, 48, 49, 50, 51, 52, 53,
      54, 55, 56, 57, 58, 59, 60, 61, 62, 63, 64, 65, 66, 67, 68, 69, 70, 71, 72, 73, 74, 75,
      76, 77, 78, 79, 80, 81, 82, 83, 84, 85, 86, 87, 88, 89, 90, 91, 92, 93, 94, 95, 97, 98,
      99, 100, 101, 102, 103, 104, 105, 106, 107, 108, 109, 110, 111, 112, 113, 114, 115,
      116, 117, 118, 119, 120, 121, 122, 123, 124, 125, 126, 225, 233, 237, 243, 250, 241,
      231, 8364, 163, 96>>

\* ord(c)
Ord == [c \in { Chars[i] : i \in 1..Len(Chars) } |-> Codes[CHOOSE i \in 1..Len(Chars) : Chars[i] = c]]

\* the str written with the given characters
RECURSIVE Str(_)
Str(cs) == IF cs = <<>> THEN <<>> ELSE <<Ord[Head(cs)]>> \o Str(Tail(cs))

\* c lies in one of the ranges of the table, which lists first, last of every
\* range in turn
InRanges(c, table) ==
    \E i \in 1..(Len(table) \div 2) : table[2 * i - 1] <= c /\ c <= table[2 * i]

\* the map of the runs of the table, which lists first, last, step, image of
\* every run in turn: every step-th code point from first to last goes as
\* far from itself as first from the image of first
MapOf(table) ==
    LET members(i) == { table[4 * i - 3] + k * table[4 * i - 1] :
                          k \in 0..((table[4 * i - 2] - table[4 * i - 3]) \div table[4 * i - 1]) }
        image(c, i) == c + table[4 * i] - table[4 * i - 3]
    IN  [c \in UNION { members(i) : i \in 1..(Len(table) \div 4) } |->
            image(c, CHOOSE i \in 1..(Len(table) \div 4) : c \in members(i))]

\* the upper-case letters above Latin-1 with a one-character lower case
LowerRuns ==
    <<256, 302, 2, 257, 306, 310, 2, 307, 313, 327, 2, 314, 330, 374, 2, 331, 376, 376, 1,
      255, 377, 381, 2, 378, 385, 385, 1, 595, 386, 388, 2, 387, 390, 390, 1, 596, 391, 391,
      1, 392, 393, 394, 1, 598, 395, 395, 1, 396, 398, 398, 1, 477, 399, 399, 1, 601, 400,
      400, 1, 603, 401, 401, 1, 402, 403, 403, 1, 608, 404, 404, 1, 611, 406, 406, 1, 617,
      407, 407, 1, 616, 408, 408, 1, 409, 412, 412, 1, 623, 413, 413, 1, 626, 415, 415, 1,
      629, 416, 420, 2, 417, 422, 422, 1, 640, 423, 423, 1, 424, 425, 425, 1, 643, 428, 428,
      1, 429, 430, 430, 1, 648, 431, 431, 1, 432, 433, 434, 1, 650, 435, 437, 2, 436, 439,
      439, 1, 658, 440, 440, 1, 441, 444, 444, 1, 445, 452, 452, 1, 454, 453, 453, 1, 454,
      455, 455, 1, 457, 456, 456, 1, 457, 458, 458, 1, 460, 459, 475, 2, 460, 478, 494, 2,
      479, 497, 497, 1, 499, 498, 500, 2, 499, 502, 502, 1, 405, 503, 503, 1, 447, 504, 542,
      2, 505, 544, 544, 1, 414, 546, 562, 2, 547, 570, 570, 1, 11365, 571, 571, 1, 572, 573,
      573, 1, 410, 574, 574, 1, 11366, 577, 577, 1, 578, 579, 579, 1, 384, 580, 580, 1, 649,
      581, 581, 1, 652, 582, 590, 2, 583, 880, 882, 2, 881, 886, 886, 1, 887, 895, 895, 1,
      1011, 902, 902, 1, 940, 904, 906, 1, 941, 908, 908, 1, 972, 910, 911, 1, 973, 913, 929,
      1, 945, 931, 939, 1, 963, 975, 975, 1, 983, 984, 1006, 2, 985, 1012, 1012, 1, 952,
      1015, 1015, 1, 1016, 1017, 1017, 1, 1010, 1018, 1018, 1, 1019, 1021, 1023, 1, 891,
      1024, 1039, 1, 1104, 1040, 1071, 1, 1072, 1120, 1152, 2, 1121, 1162, 1214, 2, 1163,
      1216, 1216, 1, 1231, 1217, 1229, 2, 1218, 1232, 1326, 2, 1233, 1329, 1366, 1, 1377,
      4256, 4293, 1, 11520, 4295, 4295, 1, 11559, 4301, 4301, 1, 11565, 5024, 5103, 1, 43888,
      5104, 5109, 1, 5112, 7312, 7354, 1, 4304, 7357, 7359, 1, 4349, 7680, 7828, 2, 7681,
      7838, 7838, 1, 223, 7840, 7934, 2, 7841, 7944, 7951, 1, 7936, 7960, 7965, 1, 7952,
      7976, 7983, 1, 7968, 7992, 7999, 1, 7984, 8008, 8013, 1, 8000, 8025, 8031, 2, 8017,
      8040, 8047, 1, 8032, 8072, 8079, 1, 8064, 8088, 8095, 1, 8080, 8104, 8111, 1, 8096,
      8120, 8121, 1, 8112, 8122, 8123, 1, 8048, 8124, 8124, 1, 8115, 8136, 8139, 1, 8050,
      8140, 8140, 1, 8131, 8152, 8153, 1, 8144, 8154, 8155, 1, 8054, 8168, 8169, 1, 8160,
      8170, 8171, 1, 8058, 8172, 8172, 1, 8165, 8184, 8185, 1, 8056, 8186, 8187, 1, 8060,
      8188, 8188, 1, 8179, 8486, 8486, 1, 969, 8490, 8490, 1, 107, 8491, 8491, 1, 229, 8498,
      8498, 1, 8526, 8544, 8559, 1, 8560, 8579, 8579, 1, 8580, 9398, 9423, 1, 9424, 11264,
      11311, 1, 11312, 11360, 11360, 1, 11361, 11362, 11362, 1, 619, 11363, 11363, 1, 7549,
      11364, 11364, 1, 637, 11367, 11371, 2, 11368, 11373, 11373, 1, 593, 11374, 11374, 1,
      625, 11375, 11375, 1, 592, 11376, 11376, 1, 594, 11378, 11378, 1, 11379, 11381, 11381,
      1, 11382, 11390, 11391, 1, 575, 11392, 11490, 2, 11393, 11499, 11501, 2, 11500, 11506,
      11506, 1, 11507, 42560, 42604, 2, 42561, 42624, 42650, 2, 42625, 42786, 42798, 2,
      42787, 42802, 42862, 2, 42803, 42873, 42875, 2, 42874, 42877, 42877, 1, 7545, 42878,
      42886, 2, 42879, 42891, 42891, 1, 42892, 42893, 42893, 1, 613, 42896, 42898, 2, 42897,
      42902, 42920, 2, 42903, 42922, 42922, 1, 614, 42923, 42923, 1, 604, 42924, 42924, 1,
      609, 42925, 42925, 1, 620, 42926, 42926, 1, 618, 42928, 42928, 1, 670, 42929, 42929, 1,
      647, 42930, 42930, 1, 669, 42931, 42931, 1, 43859, 42932, 42946, 2, 42933, 42948,
      42948, 1, 42900, 42949, 42949, 1, 642, 42950, 42950, 1, 7566, 42951, 42953, 2, 42952,
      42960, 42960, 1, 42961, 42966, 42968, 2, 42967, 42997, 42997, 1, 42998, 65313, 65338,
      1, 65345, 66560, 66599, 1, 66600, 66736, 66771, 1, 66776, 66928, 66964, 2, 66967,
      66929, 66937, 2, 66968, 66941, 66953, 2, 66980, 66957, 66961, 2, 66996, 66965, 66965,
      1, 67004, 68736, 68786, 1, 68800, 71840, 71871, 1, 71872, 93760, 93791, 1, 93792,
      125184, 125217, 1, 125218>>

\* the lower-case letters above Latin-1 with a one-character upper case
UpperRuns ==
    <<257, 303, 2, 256, 305, 305, 1, 73, 307, 311, 2, 306, 314, 328, 2, 313, 331, 375, 2,
      330, 378, 382, 2, 377, 383, 383, 1, 83, 384, 384, 1, 579, 387, 389, 2, 386, 392, 392,
      1, 391, 396, 396, 1, 395, 402, 402, 1, 401, 405, 405, 1, 502, 409, 409, 1, 408, 410,
      410, 1, 573, 414, 414, 1, 544, 417, 421, 2, 416, 424, 424, 1, 423, 429, 429, 1, 428,
      432, 432, 1, 431, 436, 438, 2, 435, 441, 441, 1, 440, 445, 445, 1, 444, 447, 447, 1,
      503, 453, 453, 1, 452, 454, 454, 1, 452, 456, 456, 1, 455, 457, 457, 1, 455, 459, 459,
      1, 458, 460, 460, 1, 458, 462, 476, 2, 461, 477, 477, 1, 398, 479, 495, 2, 478, 498,
      498, 1, 497, 499, 499, 1, 497, 501, 501, 1, 500, 505, 543, 2, 504, 547, 563, 2, 546,
      572, 572, 1, 571, 575, 576, 1, 11390, 578, 578, 1, 577, 583, 591, 2, 582, 592, 592, 1,
      11375, 593, 593, 1, 11373, 594, 594, 1, 11376, 595, 595, 1, 385, 596, 596, 1, 390, 598,
      599, 1, 393, 601, 601, 1, 399, 603, 603, 1, 400, 604, 604, 1, 42923, 608, 608, 1, 403,
      609, 609, 1, 42924, 611, 611, 1, 404, 613, 613, 1, 42893, 614, 614, 1, 42922, 616, 616,
      1, 407, 617, 617, 1, 406, 618, 618, 1, 42926, 619, 619, 1, 11362, 620, 620, 1, 42925,
      623, 623, 1, 412, 625, 625, 1, 11374, 626, 626, 1, 413, 629, 629, 1, 415, 637, 637, 1,
      11364, 640, 640, 1, 422, 642, 642, 1, 42949, 643, 643, 1, 425, 647, 647, 1, 42929, 648,
      648, 1, 430, 649, 649, 1, 580, 650, 651, 1, 433, 652, 652, 1, 581, 658, 658, 1, 439,
      669, 669, 1, 42930, 670, 670, 1, 42928, 837, 837, 1, 921, 881, 883, 2, 880, 887, 887,
      1, 886, 891, 893, 1, 1021, 940, 940, 1, 902, 941, 943, 1, 904, 945, 961, 1, 913, 962,
      962, 1, 931, 963, 971, 1, 931, 972, 972, 1, 908, 973, 974, 1, 910, 976, 976, 1, 914,
      977, 977, 1, 920, 981, 981, 1, 934, 982, 982, 1, 928, 983, 983, 1, 975, 985, 1007, 2,
      984, 1008, 1008, 1, 922, 1009, 1009, 1, 929, 1010, 1010, 1, 1017, 1011, 1011, 1, 895,
      1013, 1013, 1, 917, 1016, 1016, 1, 1015, 1019, 1019, 1, 1018, 1072, 1103, 1, 1040,
      1104, 1119, 1, 1024, 1121, 1153, 2, 1120, 1163, 1215, 2, 1162, 1218, 1230, 2, 1217,
      1231, 1231, 1, 1216, 1233, 1327, 2, 1232, 1377, 1414, 1, 1329, 4304, 4346, 1, 7312,
      4349, 4351, 1, 7357, 5112, 5117, 1, 5104, 7296, 7296, 1, 1042, 7297, 7297, 1, 1044,
      7298, 7298, 1, 1054, 7299, 7300, 1, 1057, 7301, 7301, 1, 1058, 7302, 7302, 1, 1066,
      7303, 7303, 1, 1122, 7304, 7304, 1, 42570, 7545, 7545, 1, 42877, 7549, 7549, 1, 11363,
      7566, 7566, 1, 42950, 7681, 7829, 2, 7680, 7835, 7835, 1, 7776, 7841, 7935, 2, 7840,
      7936, 7943, 1, 7944, 7952, 7957, 1, 7960, 7968, 7975, 1, 7976, 7984, 7991, 1, 7992,
      8000, 8005, 1, 8008, 8017, 8023, 2, 8025, 8032, 8039, 1, 8040, 8048, 8049, 1, 8122,
      8050, 8053, 1, 8136, 8054, 8055, 1, 8154, 8056, 8057, 1, 8184, 8058, 8059, 1, 8170,
      8060, 8061, 1, 8186, 8112, 8113, 1, 8120, 8126, 8126, 1, 921, 8144, 8145, 1, 8152,
      8160, 8161, 1, 8168, 8165, 8165, 1, 8172, 8526, 8526, 1, 8498, 8560, 8575, 1, 8544,
      8580, 8580, 1, 8579, 9424, 9449, 1, 9398, 11312, 11359, 1, 11264, 11361, 11361, 1,
      11360, 11365, 11365, 1, 570, 11366, 11366, 1, 574, 11368, 11372, 2, 11367, 11379,
      11379, 1, 11378, 11382, 11382, 1, 11381, 11393, 11491, 2, 11392, 11500, 11502, 2,
      11499, 11507, 11507, 1, 11506, 11520, 11557, 1, 4256, 11559, 11559, 1, 4295, 11565,
      11565, 1, 4301, 42561, 42605, 2, 42560, 42625, 42651, 2, 42624, 42787, 42799, 2, 42786,
      42803, 42863, 2, 42802, 42874, 42876, 2, 42873, 42879, 42887, 2, 42878, 42892, 42892,
      1, 42891, 42897, 42899, 2, 42896, 42900, 42900, 1, 42948, 42903, 42921, 2, 42902,
      42933, 42947, 2, 42932, 42952, 42954, 2, 42951, 42961, 42961, 1, 42960, 42967, 42969,
      2, 42966, 42998, 42998, 1, 42997, 43859, 43859, 1, 42931, 43888, 43967, 1, 5024, 65345,
      65370, 1, 65313, 66600, 66639, 1, 66560, 66776, 66811, 1, 66736, 66967, 67003, 2,
      66928, 66968, 66976, 2, 66929, 66980, 66992, 2, 66941, 66996, 67000, 2, 66957, 67004,
      67004, 1, 66965, 68800, 68850, 1, 68736, 71872, 71903, 1, 71840, 93792, 93823, 1,
      93760, 125218, 125251, 1, 125184>>

\* the characters above Latin-1 whose upper case is more than one character:
\* the character and the three characters of its upper case, 0 for none
UpperSpecials ==
    <<329, 700, 78, 0, 496, 74, 780, 0, 912, 921, 776, 769, 944, 933, 776, 769, 1415, 1333,
      1362, 0, 7830, 72, 817, 0, 7831, 84, 776, 0, 7832, 87, 778, 0, 7833, 89, 778, 0, 7834,
      65, 702, 0, 8016, 933, 787, 0, 8018, 933, 787, 768, 8020, 933, 787, 769, 8022, 933,
      787, 834, 8064, 7944, 921, 0, 8065, 7945, 921, 0, 8066, 7946, 921, 0, 8067, 7947, 921,
      0, 8068, 7948, 921, 0, 8069, 7949, 921, 0, 8070, 7950, 921, 0, 8071, 7951, 921, 0,
      8072, 7944, 921, 0, 8073, 7945, 921, 0, 8074, 7946, 921, 0, 8075, 7947, 921, 0, 8076,
      7948, 921, 0, 8077, 7949, 921, 0, 8078, 7950, 921, 0, 8079, 7951, 921, 0, 8080, 7976,
      921, 0, 8081, 7977, 921, 0, 8082, 7978, 921, 0, 8083, 7979, 921, 0, 8084, 7980, 921, 0,
      8085, 7981, 921, 0, 8086, 7982, 921, 0, 8087, 7983, 921, 0, 8088, 7976, 921, 0, 8089,
      7977, 921, 0, 8090, 7978, 921, 0, 8091, 7979, 921, 0, 8092, 7980, 921, 0, 8093, 7981,
      921, 0, 8094, 7982, 921, 0, 8095, 7983, 921, 0, 8096, 8040, 921, 0, 8097, 8041, 921, 0,
      8098, 8042, 921, 0, 8099, 8043, 921, 0, 8100, 8044, 921, 0, 8101, 8045, 921, 0, 8102,
      8046, 921, 0, 8103, 8047, 921, 0, 8104, 8040, 921, 0, 8105, 8041, 921, 0, 8106, 8042,
      921, 0, 8107, 8043, 921, 0, 8108, 8044, 921, 0, 8109, 8045, 921, 0, 8110, 8046, 921, 0,
      8111, 8047, 921, 0, 8114, 8122, 921, 0, 8115, 913, 921, 0, 8116, 902, 921, 0, 8118,
      913, 834, 0, 8119, 913, 834, 921, 8124, 913, 921, 0, 8130, 8138, 921, 0, 8131, 919,
      921, 0, 8132, 905, 921, 0, 8134, 919, 834, 0, 8135, 919, 834, 921, 8140, 919, 921, 0,
      8146, 921, 776, 768, 8147, 921, 776, 769, 8150, 921, 834, 0, 8151, 921, 776, 834, 8162,
      933, 776, 768, 8163, 933, 776, 769, 8164, 929, 787, 0, 8166, 933, 834, 0, 8167, 933,
      776, 834, 8178, 8186, 921, 0, 8179, 937, 921, 0, 8180, 911, 921, 0, 8182, 937, 834, 0,
      8183, 937, 834, 921, 8188, 937, 921, 0, 64256, 70, 70, 0, 64257, 70, 73, 0, 64258, 70,
      76, 0, 64259, 70, 70, 73, 64260, 70, 70, 76, 64261, 83, 84, 0, 64262, 83, 84, 0, 64275,
      1348, 1350, 0, 64276, 1348, 1333, 0, 64277, 1348, 1339, 0, 64278, 1358, 1350, 0, 64279,
      1348, 1341, 0>>

LowerOf == MapOf(LowerRuns)
UpperOf == MapOf(UpperRuns)
UpperSpecialOf ==
    [c \in { UpperSpecials[4 * i - 3] : i \in 1..(Len(UpperSpecials) \div 4) } |->
        SelectSeq(SubSeq(UpperSpecials,
                         4 * (CHOOSE i \in 1..(Len(UpperSpecials) \div 4) : UpperSpecials[4 * i - 3] = c) - 2,
                         4 * (CHOOSE i \in 1..(Len(UpperSpecials) \div 4) : UpperSpecials[4 * i - 3] = c)),
                  LAMBDA x : x # 0)]

\* the characters the Final_Sigma rule skips (Case_Ignorable), and the cased
\* characters among the others
CaseIgnorable ==
    <<39, 39, 46, 46, 58, 58, 94, 94, 96, 96, 168, 168, 173, 173, 175, 175, 180, 180, 183,
      184, 688, 879, 884, 885, 890, 890, 900, 901, 903, 903, 1155, 1161, 1369, 1369, 1375,
      1375, 1425, 1469, 1471, 1471, 1473, 1474, 1476, 1477, 1479, 1479, 1524, 1524, 1536,
      1541, 1552, 1562, 1564, 1564, 1600, 1600, 1611, 1631, 1648, 1648, 1750, 1757, 1759,
      1768, 1770, 1773, 1807, 1807, 1809, 1809, 1840, 1866, 1958, 1968, 2027, 2037, 2042,
      2042, 2045, 2045, 2070, 2093, 2137, 2139, 2184, 2184, 2192, 2193, 2200, 2207, 2249,
      2306, 2362, 2362, 2364, 2364, 2369, 2376, 2381, 2381, 2385, 2391, 2402, 2403, 2417,
      2417, 2433, 2433, 2492, 2492, 2497, 2500, 2509, 2509, 2530, 2531, 2558, 2558, 2561,
      2562, 2620, 2620, 2625, 2626, 2631, 2632, 2635, 2637, 2641, 2641, 2672, 2673, 2677,
      2677, 2689, 2690, 2748, 2748, 2753, 2757, 2759, 2760, 2765, 2765, 2786, 2787, 2810,
      2815, 2817, 2817, 2876, 2876, 2879, 2879, 2881, 2884, 2893, 2893, 2901, 2902, 2914,
      2915, 2946, 2946, 3008, 3008, 3021, 3021, 3072, 3072, 3076, 3076, 3132, 3132, 3134,
      3136, 3142, 3144, 3146, 3149, 3157, 3158, 3170, 3171, 3201, 3201, 3260, 3260, 3263,
      3263, 3270, 3270, 3276, 3277, 3298, 3299, 3328, 3329, 3387, 3388, 3393, 3396, 3405,
      3405, 3426, 3427, 3457, 3457, 3530, 3530, 3538, 3540, 3542, 3542, 3633, 3633, 3636,
      3642, 3654, 3662, 3761, 3761, 3764, 3772, 3782, 3782, 3784, 3789, 3864, 3865, 3893,
      3893, 3895, 3895, 3897, 3897, 3953, 3966, 3968, 3972, 3974, 3975, 3981, 3991, 3993,
      4028, 4038, 4038, 4141, 4144, 4146, 4151, 4153, 4154, 4157, 4158, 4184, 4185, 4190,
      4192, 4209, 4212, 4226, 4226, 4229, 4230, 4237, 4237, 4253, 4253, 4348, 4348, 4957,
      4959, 5906, 5908, 5938, 5939, 5970, 5971, 6002, 6003, 6068, 6069, 6071, 6077, 6086,
      6086, 6089, 6099, 6103, 6103, 6109, 6109, 6155, 6159, 6211, 6211, 6277, 6278, 6313,
      6313, 6432, 6434, 6439, 6440, 6450, 6450, 6457, 6459, 6679, 6680, 6683, 6683, 6742,
      6742, 6744, 6750, 6752, 6752, 6754, 6754, 6757, 6764, 6771, 6780, 6783, 6783, 6823,
      6823, 6832, 6862, 6912, 6915, 6964, 6964, 6966, 6970, 6972, 6972, 6978, 6978, 7019,
      7027, 7040, 7041, 7074, 7077, 7080, 7081, 7083, 7085, 7142, 7142, 7144, 7145, 7149,
      7149, 7151, 7153, 7212, 7219, 7222, 7223, 7288, 7293, 7376, 7378, 7380, 7392, 7394,
      7400, 7405, 7405, 7412, 7412, 7416, 7417, 7468, 7530, 7544, 7544, 7579, 7679, 8125,
      8125, 8127, 8129, 8141, 8143, 8157, 8159, 8173, 8175, 8189, 8190, 8203, 8207, 8216,
      8217, 8228, 8228, 8231, 8231, 8234, 8238, 8288, 8292, 8294, 8303, 8305, 8305, 8319,
      8319, 8336, 8348, 8400, 8432, 11388, 11389, 11503, 11505, 11631, 11631, 11647, 11647,
      11744, 11775, 11823, 11823, 12293, 12293, 12330, 12333, 12337, 12341, 12347, 12347,
      12441, 12446, 12540, 12542, 40981, 40981, 42232, 42237, 42508, 42508, 42607, 42610,
      42612, 42621, 42623, 42623, 42652, 42655, 42736, 42737, 42752, 42785, 42864, 42864,
      42888, 42890, 42994, 42996, 43000, 43001, 43010, 43010, 43014, 43014, 43019, 43019,
      43045, 43046, 43052, 43052, 43204, 43205, 43232, 43249, 43263, 43263, 43302, 43309,
      43335, 43345, 43392, 43394, 43443, 43443, 43446, 43449, 43452, 43453, 43471, 43471,
      43493, 43494, 43561, 43566, 43569, 43570, 43573, 43574, 43587, 43587, 43596, 43596,
      43632, 43632, 43644, 43644, 43696, 43696, 43698, 43700, 43703, 43704, 43710, 43711,
      43713, 43713, 43741, 43741, 43756, 43757, 43763, 43764, 43766, 43766, 43867, 43871,
      43881, 43883, 44005, 44005, 44008, 44008, 44013, 44013, 64286, 64286, 64434, 64450,
      65024, 65039, 65043, 65043, 65056, 65071, 65106, 65106, 65109, 65109, 65279, 65279,
      65287, 65287, 65294, 65294, 65306, 65306, 65342, 65342, 65344, 65344, 65392, 65392,
      65438, 65439, 65507, 65507, 65529, 65531, 66045, 66045, 66272, 66272, 66422, 66426,
      67456, 67461, 67463, 67504, 67506, 67514, 68097, 68099, 68101, 68102, 68108, 68111,
      68152, 68154, 68159, 68159, 68325, 68326, 68900, 68903, 69291, 69292, 69446, 69456,
      69506, 69509, 69633, 69633, 69688, 69702, 69744, 69744, 69747, 69748, 69759, 69761,
      69811, 69814, 69817, 69818, 69821, 69821, 69826, 69826, 69837, 69837, 69888, 69890,
      69927, 69931, 69933, 69940, 70003, 70003, 70016, 70017, 70070, 70078, 70089, 70092,
      70095, 70095, 70191, 70193, 70196, 70196, 70198, 70199, 70206, 70206, 70367, 70367,
      70371, 70378, 70400, 70401, 70459, 70460, 70464, 70464, 70502, 70508, 70512, 70516,
      70712, 70719, 70722, 70724, 70726, 70726, 70750, 70750, 70835, 70840, 70842, 70842,
      70847, 70848, 70850, 70851, 71090, 71093, 71100, 71101, 71103, 71104, 71132, 71133,
      71219, 71226, 71229, 71229, 71231, 71232, 71339, 71339, 71341, 71341, 71344, 71349,
      71351, 71351, 71453, 71455, 71458, 71461, 71463, 71467, 71727, 71735, 71737, 71738,
      71995, 71996, 71998, 71998, 72003, 72003, 72148, 72151, 72154, 72155, 72160, 72160,
      72193, 72202, 72243, 72248, 72251, 72254, 72263, 72263, 72273, 72278, 72281, 72283,
      72330, 72342, 72344, 72345, 72752, 72758, 72760, 72765, 72767, 72767, 72850, 72871,
      72874, 72880, 72882, 72883, 72885, 72886, 73009, 73014, 73018, 73018, 73020, 73021,
      73023, 73029, 73031, 73031, 73104, 73105, 73109, 73109, 73111, 73111, 73459, 73460,
      78896, 78904, 92912, 92916, 92976, 92982, 92992, 92995, 94031, 94031, 94095, 94111,
      94176, 94177, 94179, 94180, 110576, 110579, 110581, 110587, 110589, 110590, 113821,
      113822, 113824, 113827, 118528, 118573, 118576, 118598, 119143, 119145, 119155, 119170,
      119173, 119179, 119210, 119213, 119362, 119364, 121344, 121398, 121403, 121452, 121461,
      121461, 121476, 121476, 121499, 121503, 121505, 121519, 122880, 122886, 122888, 122904,
      122907, 122913, 122915, 122916, 122918, 122922, 123184, 123197, 123566, 123566, 123628,
      123631, 125136, 125142, 125252, 125259, 127995, 127999, 917505, 917505, 917536, 917631,
      917760, 917999>>

Cased ==
    <<65, 90, 97, 122, 170, 170, 181, 181, 186, 186, 192, 214, 216, 246, 248, 442, 444, 447,
      452, 659, 661, 687, 880, 883, 886, 887, 891, 893, 895, 895, 902, 902, 904, 906, 908,
      908, 910, 929, 931, 1013, 1015, 1153, 1162, 1327, 1329, 1366, 1376, 1416, 4256, 4293,
      4295, 4295, 4301, 4301, 4304, 4346, 4349, 4351, 5024, 5109, 5112, 5117, 7296, 7304,
      7312, 7354, 7357, 7359, 7424, 7467, 7531, 7543, 7545, 7578, 7680, 7957, 7960, 7965,
      7968, 8005, 8008, 8013, 8016, 8023, 8025, 8025, 8027, 8027, 8029, 8029, 8031, 8061,
      8064, 8116, 8118, 8124, 8126, 8126, 8130, 8132, 8134, 8140, 8144, 8147, 8150, 8155,
      8160, 8172, 8178, 8180, 8182, 8188, 8450, 8450, 8455, 8455, 8458, 8467, 8469, 8469,
      8473, 8477, 8484, 8484, 8486, 8486, 8488, 8488, 8490, 8493, 8495, 8500, 8505, 8505,
      8508, 8511, 8517, 8521, 8526, 8526, 8544, 8575, 8579, 8580, 9398, 9449, 11264, 11387,
      11390, 11492, 11499, 11502, 11506, 11507, 11520, 11557, 11559, 11559, 11565, 11565,
      42560, 42605, 42624, 42651, 42786, 42863, 42865, 42887, 42891, 42894, 42896, 42954,
      42960, 42961, 42963, 42963, 42965, 42969, 42997, 42998, 43002, 43002, 43824, 43866,
      43872, 43880, 43888, 43967, 64256, 64262, 64275, 64279, 65313, 65338, 65345, 65370,
      66560, 66639, 66736, 66771, 66776, 66811, 66928, 66938, 66940, 66954, 66956, 66962,
      66964, 66965, 66967, 66977, 66979, 66993, 66995, 67001, 67003, 67004, 68736, 68786,
      68800, 68850, 71840, 71903, 93760, 93823, 119808, 119892, 119894, 119964, 119966,
      119967, 119970, 119970, 119973, 119974, 119977, 119980, 119982, 119993, 119995, 119995,
      119997, 120003, 120005, 120069, 120071, 120074, 120077, 120084, 120086, 120092, 120094,
      120121, 120123, 120126, 120128, 120132, 120134, 120134, 120138, 120144, 120146, 120485,
      120488, 120512, 120514, 120538, 120540, 120570, 120572, 120596, 120598, 120628, 120630,
      120654, 120656, 120686, 120688, 120712, 120714, 120744, 120746, 120770, 120772, 120779,
      122624, 122633, 122635, 122654, 125184, 125251, 127280, 127305, 127312, 127337, 127344,
      127369>>

\* the characters \w matches in a str pattern: alphanumerics and the underscore
WordChars ==
    <<48, 57, 65, 90, 95, 95, 97, 122, 170, 170, 178, 179, 181, 181, 185, 186, 188, 190, 192,
      214, 216, 246, 248, 705, 710, 721, 736, 740, 748, 748, 750, 750, 880, 884, 886, 887,
      890, 893, 895, 895, 902, 902, 904, 906, 908, 908, 910, 929, 931, 1013, 1015, 1153,
      1162, 1327, 1329, 1366, 1369, 1369, 1376, 1416, 1488, 1514, 1519, 1522, 1568, 1610,
      1632, 1641, 1646, 1647, 1649, 1747, 1749, 1749, 1765, 1766, 1774, 1788, 1791, 1791,
      1808, 1808, 1810, 1839, 1869, 1957, 1969, 1969, 1984, 2026, 2036, 2037, 2042, 2042,
      2048, 2069, 2074, 2074, 2084, 2084, 2088, 2088, 2112, 2136, 2144, 2154, 2160, 2183,
      2185, 2190, 2208, 2249, 2308, 2361, 2365, 2365, 2384, 2384, 2392, 2401, 2406, 2415,
      2417, 2432, 2437, 2444, 2447, 2448, 2451, 2472, 2474, 2480, 2482, 2482, 2486, 2489,
      2493, 2493, 2510, 2510, 2524, 2525, 2527, 2529, 2534, 2545, 2548, 2553, 2556, 2556,
      2565, 2570, 2575, 2576, 2579, 2600, 2602, 2608, 2610, 2611, 2613, 2614, 2616, 2617,
      2649, 2652, 2654, 2654, 2662, 2671, 2674, 2676, 2693, 2701, 2703, 2705, 2707, 2728,
      2730, 2736, 2738, 2739, 2741, 2745, 2749, 2749, 2768, 2768, 2784, 2785, 2790, 2799,
      2809, 2809, 2821, 2828, 2831, 2832, 2835, 2856, 2858, 2864, 2866, 2867, 2869, 2873,
      2877, 2877, 2908, 2909, 2911, 2913, 2918, 2927, 2929, 2935, 2947, 2947, 2949, 2954,
      2958, 2960, 2962, 2965, 2969, 2970, 2972, 2972, 2974, 2975, 2979, 2980, 2984, 2986,
      2990, 3001, 3024, 3024, 3046, 3058, 3077, 3084, 3086, 3088, 3090, 3112, 3114, 3129,
      3133, 3133, 3160, 3162, 3165, 3165, 3168, 3169, 3174, 3183, 3192, 3198, 3200, 3200,
      3205, 3212, 3214, 3216, 3218, 3240, 3242, 3251, 3253, 3257, 3261, 3261, 3293, 3294,
      3296, 3297, 3302, 3311, 3313, 3314, 3332, 3340, 3342, 3344, 3346, 3386, 3389, 3389,
      3406, 3406, 3412, 3414, 3416, 3425, 3430, 3448, 3450, 3455, 3461, 3478, 3482, 3505,
      3507, 3515, 3517, 3517, 3520, 3526, 3558, 3567, 3585, 3632, 3634, 3635, 3648, 3654,
      3664, 3673, 3713, 3714, 3716, 3716, 3718, 3722, 3724, 3747, 3749, 3749, 3751, 3760,
      3762, 3763, 3773, 3773, 3776, 3780, 3782, 3782, 3792, 3801, 3804, 3807, 3840, 3840,
      3872, 3891, 3904, 3911, 3913, 3948, 3976, 3980, 4096, 4138, 4159, 4169, 4176, 4181,
      4186, 4189, 4193, 4193, 4197, 4198, 4206, 4208, 4213, 4225, 4238, 4238, 4240, 4249,
      4256, 4293, 4295, 4295, 4301, 4301, 4304, 4346, 4348, 4680, 4682, 4685, 4688, 4694,
      4696, 4696, 4698, 4701, 4704, 4744, 4746, 4749, 4752, 4784, 4786, 4789, 4792, 4798,
      4800, 4800, 4802, 4805, 4808, 4822, 4824, 4880, 4882, 4885, 4888, 4954, 4969, 4988,
      4992, 5007, 5024, 5109, 5112, 5117, 5121, 5740, 5743, 5759, 5761, 5786, 5792, 5866,
      5870, 5880, 5888, 5905, 5919, 5937, 5952, 5969, 5984, 5996, 5998, 6000, 6016, 6067,
      6103, 6103, 6108, 6108, 6112, 6121, 6128, 6137, 6160, 6169, 6176, 6264, 6272, 6276,
      6279, 6312, 6314, 6314, 6320, 6389, 6400, 6430, 6470, 6509, 6512, 6516, 6528, 6571,
      6576, 6601, 6608, 6618, 6656, 6678, 6688, 6740, 6784, 6793, 6800, 6809, 6823, 6823,
      6917, 6963, 6981, 6988, 6992, 7001, 7043, 7072, 7086, 7141, 7168, 7203, 7232, 7241,
      7245, 7293, 7296, 7304, 7312, 7354, 7357, 7359, 7401, 7404, 7406, 7411, 7413, 7414,
      7418, 7418, 7424, 7615, 7680, 7957, 7960, 7965, 7968, 8005, 8008, 8013, 8016, 8023,
      8025, 8025, 8027, 8027, 8029, 8029, 8031, 8061, 8064, 8116, 8118, 8124, 8126, 8126,
      8130, 8132, 8134, 8140, 8144, 8147, 8150, 8155, 8160, 8172, 8178, 8180, 8182, 8188,
      8304, 8305, 8308, 8313, 8319, 8329, 8336, 8348, 8450, 8450, 8455, 8455, 8458, 8467,
      8469, 8469, 8473, 8477, 8484, 8484, 8486, 8486, 8488, 8488, 8490, 8493, 8495, 8505,
      8508, 8511, 8517, 8521, 8526, 8526, 8528, 8585, 9312, 9371, 9450, 9471, 10102, 10131,
      11264, 11492, 11499, 11502, 11506, 11507, 11517, 11517, 11520, 11557, 11559, 11559,
      11565, 11565, 11568, 11623, 11631, 11631, 11648, 11670, 11680, 11686, 11688, 11694,
      11696, 11702, 11704, 11710, 11712, 11718, 11720, 11726, 11728, 11734, 11736, 11742,
      11823, 11823, 12293, 12295, 12321, 12329, 12337, 12341, 12344, 12348, 12353, 12438,
      12445, 12447, 12449, 12538, 12540, 12543, 12549, 12591, 12593, 12686, 12690, 12693,
      12704, 12735, 12784, 12799, 12832, 12841, 12872, 12879, 12881, 12895, 12928, 12937,
      12977, 12991, 13312, 19903, 19968, 42124, 42192, 42237, 42240, 42508, 42512, 42539,
      42560, 42606, 42623, 42653, 42656, 42735, 42775, 42783, 42786, 42888, 42891, 42954,
      42960, 42961, 42963, 42963, 42965, 42969, 42994, 43009, 43011, 43013, 43015, 43018,
      43020, 43042, 43056, 43061, 43072, 43123, 43138, 43187, 43216, 43225, 43250, 43255,
      43259, 43259, 43261, 43262, 43264, 43301, 43312, 43334, 43360, 43388, 43396, 43442,
      43471, 43481, 43488, 43492, 43494, 43518, 43520, 43560, 43584, 43586, 43588, 43595,
      43600, 43609, 43616, 43638, 43642, 43642, 43646, 43695, 43697, 43697, 43701, 43702,
      43705, 43709, 43712, 43712, 43714, 43714, 43739, 43741, 43744, 43754, 43762, 43764,
      43777, 43782, 43785, 43790, 43793, 43798, 43808, 43814, 43816, 43822, 43824, 43866,
      43868, 43881, 43888, 44002, 44016, 44025, 44032, 55203, 55216, 55238, 55243, 55291,
      63744, 64109, 64112, 64217, 64256, 64262, 64275, 64279, 64285, 64285, 64287, 64296,
      64298, 64310, 64312, 64316, 64318, 64318, 64320, 64321, 64323, 64324, 64326, 64433,
      64467, 64829, 64848, 64911, 64914, 64967, 65008, 65019, 65136, 65140, 65142, 65276,
      65296, 65305, 65313, 65338, 65345, 65370, 65382, 65470, 65474, 65479, 65482, 65487,
      65490, 65495, 65498, 65500, 65536, 65547, 65549, 65574, 65576, 65594, 65596, 65597,
      65599, 65613, 65616, 65629, 65664, 65786, 65799, 65843, 65856, 65912, 65930, 65931,
      66176, 66204, 66208, 66256, 66273, 66299, 66304, 66339, 66349, 66378, 66384, 66421,
      66432, 66461, 66464, 66499, 66504, 66511, 66513, 66517, 66560, 66717, 66720, 66729,
      66736, 66771, 66776, 66811, 66816, 66855, 66864, 66915, 66928, 66938, 66940, 66954,
      66956, 66962, 66964, 66965, 66967, 66977, 66979, 66993, 66995, 67001, 67003, 67004,
      67072, 67382, 67392, 67413, 67424, 67431, 67456, 67461, 67463, 67504, 67506, 67514,
      67584, 67589, 67592, 67592, 67594, 67637, 67639, 67640, 67644, 67644, 67647, 67669,
      67672, 67702, 67705, 67742, 67751, 67759, 67808, 67826, 67828, 67829, 67835, 67867,
      67872, 67897, 67968, 68023, 68028, 68047, 68050, 68096, 68112, 68115, 68117, 68119,
      68121, 68149, 68160, 68168, 68192, 68222, 68224, 68255, 68288, 68295, 68297, 68324,
      68331, 68335, 68352, 68405, 68416, 68437, 68440, 68466, 68472, 68497, 68521, 68527,
      68608, 68680, 68736, 68786, 68800, 68850, 68858, 68899, 68912, 68921, 69216, 69246,
      69248, 69289, 69296, 69297, 69376, 69415, 69424, 69445, 69457, 69460, 69488, 69505,
      69552, 69579, 69600, 69622, 69635, 69687, 69714, 69743, 69745, 69746, 69749, 69749,
      69763, 69807, 69840, 69864, 69872, 69881, 69891, 69926, 69942, 69951, 69956, 69956,
      69959, 69959, 69968, 70002, 70006, 70006, 70019, 70066, 70081, 70084, 70096, 70106,
      70108, 70108, 70113, 70132, 70144, 70161, 70163, 70187, 70272, 70278, 70280, 70280,
      70282, 70285, 70287, 70301, 70303, 70312, 70320, 70366, 70384, 70393, 70405, 70412,
      70415, 70416, 70419, 70440, 70442, 70448, 70450, 70451, 70453, 70457, 70461, 70461,
      70480, 70480, 70493, 70497, 70656, 70708, 70727, 70730, 70736, 70745, 70751, 70753,
      70784, 70831, 70852, 70853, 70855, 70855, 70864, 70873, 71040, 71086, 71128, 71131,
      71168, 71215, 71236, 71236, 71248, 71257, 71296, 71338, 71352, 71352, 71360, 71369,
      71424, 71450, 71472, 71483, 71488, 71494, 71680, 71723, 71840, 71922, 71935, 71942,
      71945, 71945, 71948, 71955, 71957, 71958, 71960, 71983, 71999, 71999, 72001, 72001,
      72016, 72025, 72096, 72103, 72106, 72144, 72161, 72161, 72163, 72163, 72192, 72192,
      72203, 72242, 72250, 72250, 72272, 72272, 72284, 72329, 72349, 72349, 72368, 72440,
      72704, 72712, 72714, 72750, 72768, 72768, 72784, 72812, 72818, 72847, 72960, 72966,
      72968, 72969, 72971, 73008, 73030, 73030, 73040, 73049, 73056, 73061, 73063, 73064,
      73066, 73097, 73112, 73112, 73120, 73129, 73440, 73458, 73648, 73648, 73664, 73684,
      73728, 74649, 74752, 74862, 74880, 75075, 77712, 77808, 77824, 78894, 82944, 83526,
      92160, 92728, 92736, 92766, 92768, 92777, 92784, 92862, 92864, 92873, 92880, 92909,
      92928, 92975, 92992, 92995, 93008, 93017, 93019, 93025, 93027, 93047, 93053, 93071,
      93760, 93846, 93952, 94026, 94032, 94032, 94099, 94111, 94176, 94177, 94179, 94179,
      94208, 100343, 100352, 101589, 101632, 101640, 110576, 110579, 110581, 110587, 110589,
      110590, 110592, 110882, 110928, 110930, 110948, 110951, 110960, 111355, 113664, 113770,
      113776, 113788, 113792, 113800, 113808, 113817, 119520, 119539, 119648, 119672, 119808,
      119892, 119894, 119964, 119966, 119967, 119970, 119970, 119973, 119974, 119977, 119980,
      119982, 119993, 119995, 119995, 119997, 120003, 120005, 120069, 120071, 120074, 120077,
      120084, 120086, 120092, 120094, 120121, 120123, 120126, 120128, 120132, 120134, 120134,
      120138, 120144, 120146, 120485, 120488, 120512, 120514, 120538, 120540, 120570, 120572,
      120596, 120598, 120628, 120630, 120654, 120656, 120686, 120688, 120712, 120714, 120744,
      120746, 120770, 120772, 120779, 120782, 120831, 122624, 122654, 123136, 123180, 123191,
      123197, 123200, 123209, 123214, 123214, 123536, 123565, 123584, 123627, 123632, 123641,
      124896, 124902, 124904, 124907, 124909, 124910, 124912, 124926, 124928, 125124, 125127,
      125135, 125184, 125251, 125259, 125259, 125264, 125273, 126065, 126123, 126125, 126127,
      126129, 126132, 126209, 126253, 126255, 126269, 126464, 126467, 126469, 126495, 126497,
      126498, 126500, 126500, 126503, 126503, 126505, 126514, 126516, 126519, 126521, 126521,
      126523, 126523, 126530, 126530, 126535, 126535, 126537, 126537, 126539, 126539, 126541,
      126543, 126545, 126546, 126548, 126548, 126551, 126551, 126553, 126553, 126555, 126555,
      126557, 126557, 126559, 126559, 126561, 126562, 126564, 126564, 126567, 126570, 126572,
      126578, 126580, 126583, 126585, 126588, 126590, 126590, 126592, 126601, 126603, 126619,
      126625, 126627, 126629, 126633, 126635, 126651, 127232, 127244, 130032, 130041, 131072,
      173791, 173824, 177976, 177984, 178205, 178208, 183969, 183984, 191456, 194560, 195101,
      196608, 201546>>

\* the characters \s matches in a str pattern (those of str.isspace())
SpaceChars ==
    <<9, 13, 28, 32, 133, 133, 160, 160, 5760, 5760, 8192, 8202, 8232, 8233, 8239, 8239,
      8287, 8287, 12288, 12288>>

\* the characters repr() escapes: those str.isprintable() rejects
NonPrintable ==
    <<0, 31, 127, 160, 173, 173, 888, 889, 896, 899, 907, 907, 909, 909, 930, 930, 1328,
      1328, 1367, 1368, 1419, 1420, 1424, 1424, 1480, 1487, 1515, 1518, 1525, 1541, 1564,
      1564, 1757, 1757, 1806, 1807, 1867, 1868, 1970, 1983, 2043, 2044, 2094, 2095, 2111,
      2111, 2140, 2141, 2143, 2143, 2155, 2159, 2191, 2199, 2274, 2274, 2436, 2436, 2445,
      2446, 2449, 2450, 2473, 2473, 2481, 2481, 2483, 2485, 2490, 2491, 2501, 2502, 2505,
      2506, 2511, 2518, 2520, 2523, 2526, 2526, 2532, 2533, 2559, 2560, 2564, 2564, 2571,
      2574, 2577, 2578, 2601, 2601, 2609, 2609, 2612, 2612, 2615, 2615, 2618, 2619, 2621,
      2621, 2627, 2630, 2633, 2634, 2638, 2640, 2642, 2648, 2653, 2653, 2655, 2661, 2679,
      2688, 2692, 2692, 2702, 2702, 2706, 2706, 2729, 2729, 2737, 2737, 2740, 2740, 2746,
      2747, 2758, 2758, 2762, 2762, 2766, 2767, 2769, 2783, 2788, 2789, 2802, 2808, 2816,
      2816, 2820, 2820, 2829, 2830, 2833, 2834, 2857, 2857, 2865, 2865, 2868, 2868, 2874,
      2875, 2885, 2886, 2889, 2890, 2894, 2900, 2904, 2907, 2910, 2910, 2916, 2917, 2936,
      2945, 2948, 2948, 2955, 2957, 2961, 2961, 2966, 2968, 2971, 2971, 2973, 2973, 2976,
      2978, 2981, 2983, 2987, 2989, 3002, 3005, 3011, 3013, 3017, 3017, 3022, 3023, 3025,
      3030, 3032, 3045, 3067, 3071, 3085, 3085, 3089, 3089, 3113, 3113, 3130, 3131, 3141,
      3141, 3145, 3145, 3150, 3156, 3159, 3159, 3163, 3164, 3166, 3167, 3172, 3173, 3184,
      3190, 3213, 3213, 3217, 3217, 3241, 3241, 3252, 3252, 3258, 3259, 3269, 3269, 3273,
      3273, 3278, 3284, 3287, 3292, 3295, 3295, 3300, 3301, 3312, 3312, 3315, 3327, 3341,
      3341, 3345, 3345, 3397, 3397, 3401, 3401, 3408, 3411, 3428, 3429, 3456, 3456, 3460,
      3460, 3479, 3481, 3506, 3506, 3516, 3516, 3518, 3519, 3527, 3529, 3531, 3534, 3541,
      3541, 3543, 3543, 3552, 3557, 3568, 3569, 3573, 3584, 3643, 3646, 3676, 3712, 3715,
      3715, 3717, 3717, 3723, 3723, 3748, 3748, 3750, 3750, 3774, 3775, 3781, 3781, 3783,
      3783, 3790, 3791, 3802, 3803, 3808, 3839, 3912, 3912, 3949, 3952, 3992, 3992, 4029,
      4029, 4045, 4045, 4059, 4095, 4294, 4294, 4296, 4300, 4302, 4303, 4681, 4681, 4686,
      4687, 4695, 4695, 4697, 4697, 4702, 4703, 4745, 4745, 4750, 4751, 4785, 4785, 4790,
      4791, 4799, 4799, 4801, 4801, 4806, 4807, 4823, 4823, 4881, 4881, 4886, 4887, 4955,
      4956, 4989, 4991, 5018, 5023, 5110, 5111, 5118, 5119, 5760, 5760, 5789, 5791, 5881,
      5887, 5910, 5918, 5943, 5951, 5972, 5983, 5997, 5997, 6001, 6001, 6004, 6015, 6110,
      6111, 6122, 6127, 6138, 6143, 6158, 6158, 6170, 6175, 6265, 6271, 6315, 6319, 6390,
      6399, 6431, 6431, 6444, 6447, 6460, 6463, 6465, 6467, 6510, 6511, 6517, 6527, 6572,
      6575, 6602, 6607, 6619, 6621, 6684, 6685, 6751, 6751, 6781, 6782, 6794, 6799, 6810,
      6815, 6830, 6831, 6863, 6911, 6989, 6991, 7039, 7039, 7156, 7163, 7224, 7226, 7242,
      7244, 7305, 7311, 7355, 7356, 7368, 7375, 7419, 7423, 7958, 7959, 7966, 7967, 8006,
      8007, 8014, 8015, 8024, 8024, 8026, 8026, 8028, 8028, 8030, 8030, 8062, 8063, 8117,
      8117, 8133, 8133, 8148, 8149, 8156, 8156, 8176, 8177, 8181, 8181, 8191, 8207, 8232,
      8239, 8287, 8303, 8306, 8307, 8335, 8335, 8349, 8351, 8385, 8399, 8433, 8447, 8588,
      8591, 9255, 9279, 9291, 9311, 11124, 11125, 11158, 11158, 11508, 11512, 11558, 11558,
      11560, 11564, 11566, 11567, 11624, 11630, 11633, 11646, 11671, 11679, 11687, 11687,
      11695, 11695, 11703, 11703, 11711, 11711, 11719, 11719, 11727, 11727, 11735, 11735,
      11743, 11743, 11870, 11903, 11930, 11930, 12020, 12031, 12246, 12271, 12284, 12288,
      12352, 12352, 12439, 12440, 12544, 12548, 12592, 12592, 12687, 12687, 12772, 12783,
      12831, 12831, 42125, 42127, 42183, 42191, 42540, 42559, 42744, 42751, 42955, 42959,
      42962, 42962, 42964, 42964, 42970, 42993, 43053, 43055, 43066, 43071, 43128, 43135,
      43206, 43213, 43226, 43231, 43348, 43358, 43389, 43391, 43470, 43470, 43482, 43485,
      43519, 43519, 43575, 43583, 43598, 43599, 43610, 43611, 43715, 43738, 43767, 43776,
      43783, 43784, 43791, 43792, 43799, 43807, 43815, 43815, 43823, 43823, 43884, 43887,
      44014, 44015, 44026, 44031, 55204, 55215, 55239, 55242, 55292, 63743, 64110, 64111,
      64218, 64255, 64263, 64274, 64280, 64284, 64311, 64311, 64317, 64317, 64319, 64319,
      64322, 64322, 64325, 64325, 64451, 64466, 64912, 64913, 64968, 64974, 64976, 65007,
      65050, 65055, 65107, 65107, 65127, 65127, 65132, 65135, 65141, 65141, 65277, 65280,
      65471, 65473, 65480, 65481, 65488, 65489, 65496, 65497, 65501, 65503, 65511, 65511,
      65519, 65531, 65534, 65535, 65548, 65548, 65575, 65575, 65595, 65595, 65598, 65598,
      65614, 65615, 65630, 65663, 65787, 65791, 65795, 65798, 65844, 65846, 65935, 65935,
      65949, 65951, 65953, 65999, 66046, 66175, 66205, 66207, 66257, 66271, 66300, 66303,
      66340, 66348, 66379, 66383, 66427, 66431, 66462, 66462, 66500, 66503, 66518, 66559,
      66718, 66719, 66730, 66735, 66772, 66775, 66812, 66815, 66856, 66863, 66916, 66926,
      66939, 66939, 66955, 66955, 66963, 66963, 66966, 66966, 66978, 66978, 66994, 66994,
      67002, 67002, 67005, 67071, 67383, 67391, 67414, 67423, 67432, 67455, 67462, 67462,
      67505, 67505, 67515, 67583, 67590, 67591, 67593, 67593, 67638, 67638, 67641, 67643,
      67645, 67646, 67670, 67670, 67743, 67750, 67760, 67807, 67827, 67827, 67830, 67834,
      67868, 67870, 67898, 67902, 67904, 67967, 68024, 68027, 68048, 68049, 68100, 68100,
      68103, 68107, 68116, 68116, 68120, 68120, 68150, 68151, 68155, 68158, 68169, 68175,
      68185, 68191, 68256, 68287, 68327, 68330, 68343, 68351, 68406, 68408, 68438, 68439,
      68467, 68471, 68498, 68504, 68509, 68520, 68528, 68607, 68681, 68735, 68787, 68799,
      68851, 68857, 68904, 68911, 68922, 69215, 69247, 69247, 69290, 69290, 69294, 69295,
      69298, 69375, 69416, 69423, 69466, 69487, 69514, 69551, 69580, 69599, 69623, 69631,
      69710, 69713, 69750, 69758, 69821, 69821, 69827, 69839, 69865, 69871, 69882, 69887,
      69941, 69941, 69960, 69967, 70007, 70015, 70112, 70112, 70133, 70143, 70162, 70162,
      70207, 70271, 70279, 70279, 70281, 70281, 70286, 70286, 70302, 70302, 70314, 70319,
      70379, 70383, 70394, 70399, 70404, 70404, 70413, 70414, 70417, 70418, 70441, 70441,
      70449, 70449, 70452, 70452, 70458, 70458, 70469, 70470, 70473, 70474, 70478, 70479,
      70481, 70486, 70488, 70492, 70500, 70501, 70509, 70511, 70517, 70655, 70748, 70748,
      70754, 70783, 70856, 70863, 70874, 71039, 71094, 71095, 71134, 71167, 71237, 71247,
      71258, 71263, 71277, 71295, 71354, 71359, 71370, 71423, 71451, 71452, 71468, 71471,
      71495, 71679, 71740, 71839, 71923, 71934, 71943, 71944, 71946, 71947, 71956, 71956,
      71959, 71959, 71990, 71990, 71993, 71994, 72007, 72015, 72026, 72095, 72104, 72105,
      72152, 72153, 72165, 72191, 72264, 72271, 72355, 72367, 72441, 72703, 72713, 72713,
      72759, 72759, 72774, 72783, 72813, 72815, 72848, 72849, 72872, 72872, 72887, 72959,
      72967, 72967, 72970, 72970, 73015, 73017, 73019, 73019, 73022, 73022, 73032, 73039,
      73050, 73055, 73062, 73062, 73065, 73065, 73103, 73103, 73106, 73106, 73113, 73119,
      73130, 73439, 73465, 73647, 73649, 73663, 73714, 73726, 74650, 74751, 74863, 74863,
      74869, 74879, 75076, 77711, 77811, 77823, 78895, 82943, 83527, 92159, 92729, 92735,
      92767, 92767, 92778, 92781, 92863, 92863, 92874, 92879, 92910, 92911, 92918, 92927,
      92998, 93007, 93018, 93018, 93026, 93026, 93048, 93052, 93072, 93759, 93851, 93951,
      94027, 94030, 94088, 94094, 94112, 94175, 94181, 94191, 94194, 94207, 100344, 100351,
      101590, 101631, 101641, 110575, 110580, 110580, 110588, 110588, 110591, 110591, 110883,
      110927, 110931, 110947, 110952, 110959, 111356, 113663, 113771, 113775, 113789, 113791,
      113801, 113807, 113818, 113819, 113824, 118527, 118574, 118575, 118599, 118607, 118724,
      118783, 119030, 119039, 119079, 119080, 119155, 119162, 119275, 119295, 119366, 119519,
      119540, 119551, 119639, 119647, 119673, 119807, 119893, 119893, 119965, 119965, 119968,
      119969, 119971, 119972, 119975, 119976, 119981, 119981, 119994, 119994, 119996, 119996,
      120004, 120004, 120070, 120070, 120075, 120076, 120085, 120085, 120093, 120093, 120122,
      120122, 120127, 120127, 120133, 120133, 120135, 120137, 120145, 120145, 120486, 120487,
      120780, 120781, 121484, 121498, 121504, 121504, 121520, 122623, 122655, 122879, 122887,
      122887, 122905, 122906, 122914, 122914, 122917, 122917, 122923, 123135, 123181, 123183,
      123198, 123199, 123210, 123213, 123216, 123535, 123567, 123583, 123642, 123646, 123648,
      124895, 124903, 124903, 124908, 124908, 124911, 124911, 124927, 124927, 125125, 125126,
      125143, 125183, 125260, 125263, 125274, 125277, 125280, 126064, 126133, 126208, 126270,
      126463, 126468, 126468, 126496, 126496, 126499, 126499, 126501, 126502, 126504, 126504,
      126515, 126515, 126520, 126520, 126522, 126522, 126524, 126529, 126531, 126534, 126536,
      126536, 126538, 126538, 126540, 126540, 126544, 126544, 126547, 126547, 126549, 126550,
      126552, 126552, 126554, 126554, 126556, 126556, 126558, 126558, 126560, 126560, 126563,
      126563, 126565, 126566, 126571, 126571, 126579, 126579, 126584, 126584, 126589, 126589,
      126591, 126591, 126602, 126602, 126620, 126624, 126628, 126628, 126634, 126634, 126652,
      126703, 126706, 126975, 127020, 127023, 127124, 127135, 127151, 127152, 127168, 127168,
      127184, 127184, 127222, 127231, 127406, 127461, 127491, 127503, 127548, 127551, 127561,
      127567, 127570, 127583, 127590, 127743, 128728, 128732, 128749, 128751, 128765, 128767,
      128884, 128895, 128985, 128991, 129004, 129007, 129009, 129023, 129036, 129039, 129096,
      129103, 129114, 129119, 129160, 129167, 129198, 129199, 129202, 129279, 129620, 129631,
      129646, 129647, 129653, 129655, 129661, 129663, 129671, 129679, 129709, 129711, 129723,
      129727, 129734, 129743, 129754, 129759, 129768, 129775, 129783, 129791, 129939, 129939,
      129995, 130031, 130042, 131071, 173792, 173823, 177977, 177983, 178206, 178207, 183970,
      183983, 191457, 194559, 195102, 196607, 201547, 917759, 918000, 1114111>>

\* the digit zero of every block of decimal digits (category Nd); the digits
\* 0 to 9 of a block are consecutive
DigitZeros ==
    <<48, 1632, 1776, 1984, 2406, 2534, 2662, 2790, 2918, 3046, 3174, 3302, 3430, 3558, 3664,
      3792, 3872, 4160, 4240, 6112, 6160, 6470, 6608, 6784, 6800, 6992, 7088, 7232, 7248,
      42528, 43216, 43264, 43472, 43504, 43600, 44016, 65296, 66720, 68912, 69734, 69872,
      69942, 70096, 70384, 70736, 70864, 71248, 71360, 71472, 71904, 72016, 72784, 73040,
      73120, 92768, 92864, 93008, 120782, 120792, 120802, 120812, 120822, 123200, 123632,
      125264, 130032>>

\* c is skipped by the Final_Sigma rule
IsCaseIgnorable(c) == InRanges(c, CaseIgnorable)

\* c, which the rule does not skip, is a cased letter
IsCased(c) == InRanges(c, Cased)

(* The capital sigma at position i of s is in the Final_Sigma context: the   *)
(* nearest character before it that is not case-ignorable is cased, and the  *)
(* nearest such character after it, if any, is not.                          *)
FinalSigma(s, i) ==
    /\ \E j \in 1..(i - 1) :
          IsCased(s[j]) /\ \A k \in (j + 1)..(i - 1) : IsCaseIgnorable(s[k])
    /\ ~\E j \in (i + 1)..Len(s) :
          IsCased(s[j]) /\ \A k \in (i + 1)..(j - 1) : IsCaseIgnorable(s[k])

\* f[c], and c where f has no value
MapTo(f, c) == IF c \in DOMAIN f THEN f[c] ELSE c

\* the lower case of a character from 256 on that is not the dotted capital I
\* or the capital sigma
LowerAbove(c) == MapTo(LowerOf, c)

(* str.lower() at position i of s, as a str: ASCII and Latin-1 capitals are  *)
(* 32 below their lower case (215 is the multiplication sign), the dotted    *)
(* capital I (304) gives i and a combining dot, the capital sigma (931) the  *)
(* final sigma (962) in the Final_Sigma context and the sigma (963) elsewhere *)
LowerAt(s, i) ==
    IF s[i] < 192 THEN <<IF 65 <= s[i] /\ s[i] <= 90 THEN s[i] + 32 ELSE s[i]>>
    ELSE IF s[i] < 256 THEN <<IF s[i] <= 222 /\ s[i] # 215 THEN s[i] + 32 ELSE s[i]>>
    ELSE IF s[i] = 304 THEN <<105, 775>>
    ELSE IF s[i] = 931 THEN <<IF FinalSigma(s, i) THEN 962 ELSE 963>>
    ELSE <<LowerAbove(s[i])>>

\* str.lower() on the one-character str of c
LowerChar(c) == LowerAt(<<c>>, 1)

RECURSIVE LowerFrom(_, _)
LowerFrom(s, i) == IF i > Len(s) THEN <<>> ELSE LowerAt(s, i) \o LowerFrom(s, i + 1)

\* str.lower(): a text without a capital below 192 and without a character
\* from 192 on is its own lower case
Lower(s) ==
    IF \A i \in 1..Len(s) : s[i] < 65 \/ (90 < s[i] /\ s[i] < 192) THEN s
    ELSE LowerFrom(s, 1)

\* the upper case of a character from 256 on
UpperAbove(c) ==
    IF c \in DOMAIN UpperSpecialOf THEN UpperSpecialOf[c]
    ELSE <<MapTo(UpperOf, c)>>

(* str.upper() on the one-character str of c: ASCII and Latin-1 small        *)
(* letters are 32 above their upper case (247 is the division sign), but the *)
(* micro sign (181) gives the capital mu (924), the sharp s (223) gives SS   *)
(* and the y with diaeresis (255) gives 376                                  *)
UpperChar(c) ==
    IF c < 181 THEN <<IF 97 <= c /\ c <= 122 THEN c - 32 ELSE c>>
    ELSE IF c < 256
    THEN IF c = 181 THEN <<924>>
         ELSE IF c = 223 THEN <<83, 83>>
         ELSE IF c = 255 THEN <<376>>
         ELSE <<IF 224 <= c /\ c # 247 THEN c - 32 ELSE c>>
    ELSE UpperAbove(c)

RECURSIVE UpperFrom(_, _)
UpperFrom(s, i) == IF i > Len(s) THEN <<>> ELSE UpperChar(s[i]) \o UpperFrom(s, i + 1)

\* str.upper()
Upper(s) == UpperFrom(s, 1)

\* Python `needle in hay` on two strings
Contains(hay, needle) ==
    \E i \in 0..(Len(hay) - Len(needle)) : SubSeq(hay, i + 1, i + Len(needle)) = needle

\* \d of a str pattern: a decimal digit of any block (the first block above
\* ASCII starts at 1632)
IsDigit(c) ==
    IF c < 1632 THEN 48 <= c /\ c <= 57
    ELSE \E i \in 1..Len(DigitZeros) : DigitZeros[i] <= c /\ c <= DigitZeros[i] + 9

\* the value float() and int() read from the digit
DigitVal(c) ==
    IF c < 1632 THEN c - 48
    ELSE c - DigitZeros[CHOOSE i \in 1..Len(DigitZeros) :
                            DigitZeros[i] <= c /\ c <= DigitZeros[i] + 9]

\* \w of a str pattern
IsWord(c) ==
    IF c < 128
    THEN (48 <= c /\ c <= 57) \/ (65 <= c /\ c <= 90) \/ c = 95 \/ (97 <= c /\ c <= 122)
    ELSE InRanges(c, WordChars)

\* \s of a str pattern
IsSpace(c) == InRanges(c, SpaceChars)

\* str.isprintable() on one character
IsPrintable(c) == IF c < 127 THEN 32 <= c ELSE ~InRanges(c, NonPrintable)

----------------------------------------------------------------------------
(* Python values *)

JNull == [t |-> "null"]
JNum(n) == [t |-> "num", n |-> n]
JDec(h) == [t |-> "dec", h |-> h]
JBool(b) == [t |-> "bool", b |-> b]
JStr(s) == [t |-> "str", s |-> s]
JList(xs) == [t |-> "list", xs |-> xs]
JDict(kv) == [t |-> "dict", kv |-> kv]

IsList(v) == v.t = "list"
IsDict(v) == v.t = "dict"
IsStr(v) == v.t = "str"

\* bool(v)
Truthy(v) ==
    CASE v.t = "null" -> FALSE
      [] v.t = "num" -> v.n # 0
      [] v.t = "dec" -> v.h # 0
      [] v.t = "bool" -> v.b
      [] v.t = "str" -> v.s # <<>>
      [] v.t = "list" -> v.xs # <<>>
      [] v.t = "dict" -> v.kv # <<>>

\* v == 0
EqualsZero(v) ==
    CASE v.t = "num" -> v.n = 0
      [] v.t = "dec" -> v.h = 0
      [] v.t = "bool" -> ~v.b
      [] OTHER -> FALSE

\* `k in d`
Has(d, k) == \E i \in 1..Len(d.kv) : d.kv[i][1] = k

\* d[k] where k in d
Item(d, k) == d.kv[CHOOSE i \in 1..Len(d.kv) : d.kv[i][1] = k][2]

\* d.get(k)
Get(d, k) == IF Has(d, k) THEN Item(d, k) ELSE JNull

\* a or b
Or(a, b) == IF Truthy(a) THEN a ELSE b

\* the outcome of a call: a returned value, or an exception
Return(v) == [raised |-> FALSE, val |-> v]
Raise(e) == [raised |-> TRUE, exc |-> e]

\* the keys of the dicts the code reads and writes, as the strs they are
K_away == Str(<<"a","w","a","y">>)
K_awayTeam == Str(<<"a","w","a","y","T","e","a","m">>)
K_away_team == Str(<<"a","w","a","y","_","t","e","a","m">>)
K_away_win == Str(<<"a","w","a","y","_","w","i","n">>)
K_bet_id == Str(<<"b","e","t","_","i","d">>)
K_bet_types == Str(<<"b","e","t","_","t","y","p","e","s">>)
K_data == Str(<<"d","a","t","a">>)
K_date == Str(<<"d","a","t","e">>)
K_dates == Str(<<"d","a","t","e","s">>)
K_draw == Str(<<"d","r","a","w">>)
K_events == Str(<<"e","v","e","n","t","s">>)
K_fixture_id == Str(<<"f","i","x","t","u","r","e","_","i","d">>)
K_fixtures == Str(<<"f","i","x","t","u","r","e","s">>)
K_from == Str(<<"f","r","o","m">>)
K_games == Str(<<"g","a","m","e","s">>)
K_home == Str(<<"h","o","m","e">>)
K_homeTeam == Str(<<"h","o","m","e","T","e","a","m">>)
K_home_team == Str(<<"h","o","m","e","_","t","e","a","m">>)
K_home_win == Str(<<"h","o","m","e","_","w","i","n">>)
K_id == Str(<<"i","d">>)
K_items == Str(<<"i","t","e","m","s">>)
K_last_updated == Str(<<"l","a","s","t","_","u","p","d","a","t","e","d">>)
K_market == Str(<<"m","a","r","k","e","t">>)
K_market_type == Str(<<"m","a","r","k","e","t","_","t","y","p","e">>)
K_matches == Str(<<"m","a","t","c","h","e","s">>)
K_odds == Str(<<"o","d","d","s">>)
K_potential_winnings == Str(<<"p","o","t","e","n","t","i","a","l","_","w","i","n","n","i","n","g","s">>)
K_prices == Str(<<"p","r","i","c","e","s">>)
K_question_type == Str(<<"q","u","e","s","t","i","o","n","_","t","y","p","e">>)
K_quotes == Str(<<"q","u","o","t","e","s">>)
K_results == Str(<<"r","e","s","u","l","t","s">>)
K_selection == Str(<<"s","e","l","e","c","t","i","o","n">>)
K_sports == Str(<<"s","p","o","r","t","s">>)
K_stake == Str(<<"s","t","a","k","e">>)
K_status == Str(<<"s","t","a","t","u","s">>)
K_success == Str(<<"s","u","c","c","e","s","s">>)
K_team1 == Str(<<"t","e","a","m","1">>)
K_team2 == Str(<<"t","e","a","m","2">>)
K_teams == Str(<<"t","e","a","m","s">>)
K_time == Str(<<"t","i","m","e">>)
K_totalResults == Str(<<"t","o","t","a","l","R","e","s","u","l","t","s">>)
K_tournament == Str(<<"t","o","u","r","n","a","m","e","n","t">>)
K_tournaments == Str(<<"t","o","u","r","n","a","m","e","n","t","s">>)

----------------------------------------------------------------------------
(* SportsAPIClient (src/app/api_client.py) *)

\* get_demo_data("/sports/fixtures")
DemoFixtures ==
    JList(<<
    JDict(<<
      <<K_id, JNum(1)>>,
      <<K_home_team, JStr(Str(<<"B","a","r","c","e","l","o","n","a">>))>>,
      <<K_away_team, JStr(Str(<<"R","e","a","l"," ","M","a","d","r","i","d">>))>>,
      <<K_date, JStr(Str(<<"2","0","2","4","-","0","3","-","2","0">>))>>,
      <<K_time, JStr(Str(<<"2","0",":","0","0">>))>>,
      <<K_tournament, JStr(Str(<<"L","a"," ","L","i","g","a">>))>>,
      <<K_status, JStr(Str(<<"S","c","h","e","d","u","l","e","d">>))>> >>),
    JDict(<<
      <<K_id, JNum(2)>>,
      <<K_home_team, JStr(Str(<<"L","i","v","e","r","p","o","o","l">>))>>,
      <<K_away_team, JStr(Str(<<"M","a","n","c","h","e","s","t","e","r"," ","C","i","t","y">>))>>,
      <<K_date, JStr(Str(<<"2","0","2","4","-","0","3","-","2","1">>))>>,
      <<K_time, JStr(Str(<<"1","9",":","4","5">>))>>,
      <<K_tournament, JStr(Str(<<"P","r","e","m","i","e","r"," ","L","e","a","g","u","e">>))>>,
      <<K_status, JStr(Str(<<"S","c","h","e","d","u","l","e","d">>))>> >>),
    JDict(<<
      <<K_id, JNum(3)>>,
      <<K_home_team, JStr(Str(<<"N","e","w"," ","Y","o","r","k"," ","Y","a","n","k","e","e","s">>))>>,
      <<K_away_team, JStr(Str(<<"B","o","s","t","o","n"," ","R","e","d"," ","S","o","x">>))>>,
      <<K_date, JStr(Str(<<"2","0","2","4","-","0","3","-","2","2">>))>>,
      <<K_time, JStr(Str(<<"1","8",":","0","5">>))>>,
      <<K_tournament, JStr(Str(<<"M","L","B">>))>>,
      <<K_status, JStr(Str(<<"S","c","h","e","d","u","l","e","d">>))>> >>),
    JDict(<<
      <<K_id, JNum(4)>>,
      <<K_home_team, JStr(Str(<<"L","A"," ","L","a","k","e","r","s">>))>>,
      <<K_away_team, JStr(Str(<<"C","h","i","c","a","g","o"," ","B","u","l","l","s">>))>>,
      <<K_date, JStr(Str(<<"2","0","2","4","-","0","3","-","2","3">>))>>,
      <<K_time, JStr(Str(<<"2","0",":","3","0">>))>>,
      <<K_tournament, JStr(Str(<<"N","B","A">>))>>,
      <<K_status, JStr(Str(<<"S","c","h","e","d","u","l","e","d">>))>> >>) >>)

\* get_demo_data("/sports/odds")
DemoOdds ==
    JList(<<
    JDict(<<
      <<K_fixture_id, JNum(1)>>,
      <<K_home_team, JStr(Str(<<"B","a","r","c","e","l","o","n","a">>))>>,
      <<K_away_team, JStr(Str(<<"R","e","a","l"," ","M","a","d","r","i","d">>))>>,
      <<K_status, JStr(Str(<<"A","c","t","i","v","e">>))>>,
      <<K_odds, JDict(<< <<K_home_win, JDec(210)>>, <<K_draw, JDec(320)>>, <<K_away_win, JDec(350)>> >>)>> >>),
    JDict(<<
      <<K_fixture_id, JNum(3)>>,
      <<K_home_team, JStr(Str(<<"N","e","w"," ","Y","o","r","k"," ","Y","a","n","k","e","e","s">>))>>,
      <<K_away_team, JStr(Str(<<"B","o","s","t","o","n"," ","R","e","d"," ","S","o","x">>))>>,
      <<K_status, JStr(Str(<<"A","c","t","i","v","e">>))>>,
      <<K_odds, JDict(<< <<K_home_win, JDec(180)>>, <<K_away_win, JDec(200)>> >>)>> >>),
    JDict(<<
      <<K_fixture_id, JNum(4)>>,
      <<K_home_team, JStr(Str(<<"L","A"," ","L","a","k","e","r","s">>))>>,
      <<K_away_team, JStr(Str(<<"C","h","i","c","a","g","o"," ","B","u","l","l","s">>))>>,
      <<K_status, JStr(Str(<<"A","c","t","i","v","e">>))>>,
      <<K_odds, JDict(<< <<K_home_win, JDec(150)>>, <<K_away_win, JDec(250)>> >>)>> >>) >>)

\* get_demo_data(endpoint)
GetDemoData(endpoint) ==
    CASE endpoint = "/sports/fixtures" -> DemoFixtures
      [] endpoint = "/sports/odds" -> DemoOdds
      [] OTHER -> JList(<<>>)

(* What the HTTP GET of make_request can meet.  kind is one of             *)
(*   "timeout"     asyncio.TimeoutError                                    *)
(*   "conn_error"  any other exception of the session or the request       *)
(*   "status"      a response whose status is not 200                      *)
(*   "non_json"    a 200 response whose body response.json() rejects       *)
(*   "unreadable"  the same, and response.text() raises as well            *)
(*   "json"        a 200 response whose body parses to `body`              *)
TransportFailures ==
    { [kind |-> "timeout"], [kind |-> "conn_error"], [kind |-> "status"],
      [kind |-> "non_json"], [kind |-> "unreadable"] }
Json(body) == [kind |-> "json", body |-> body]

\* the await of make_request at which the request ends: session.get (a
\* failure of the GET, or a status that is not 200), response.json() (the
\* body parses) or response.text() (json() raised)
EndsAt(r) ==
    CASE r.kind \in {"timeout", "conn_error", "status"} -> "get"
      [] r.kind = "json" -> "json"
      [] r.kind \in {"non_json", "unreadable"} -> "text"

\* make_request without its except clauses
MakeRequestUncaught(r) ==
    CASE r.kind = "json" -> Return(r.body)
      [] r.kind = "status" -> Return(JNull)
      [] OTHER -> Raise("ClientError")

\* make_request: the parsed body of a 200 response, None for everything else
MakeRequest(r) ==
    CASE r.kind = "json" -> Return(r.body)
      [] r.kind = "non_json" -> Return(JNull)
      [] r.kind = "status" -> Return(JNull)
      [] r.kind = "timeout" -> Return(JNull)
      [] r.kind = "conn_error" -> Return(JNull)
      [] r.kind = "unreadable" -> Return(JNull)

\* the first list-valued field of a dict, in insertion order (None if none)
FirstListValue(d) ==
    IF \E i \in 1..Len(d.kv) : IsList(d.kv[i][2])
    THEN d.kv[CHOOSE i \in 1..Len(d.kv) :
                 IsList(d.kv[i][2]) /\ \A j \in 1..(i - 1) : ~IsList(d.kv[j][2])][2]
    ELSE JNull

\* the value of the first key of `keys` that is in d with a list value (None if none)
RECURSIVE FirstListUnder(_, _)
FirstListUnder(d, keys) ==
    IF keys = <<>> THEN JNull
    ELSE IF Has(d, Head(keys)) /\ IsList(Item(d, Head(keys))) THEN Item(d, Head(keys))
    ELSE FirstListUnder(d, Tail(keys))

FixtureKeys == <<K_fixtures, K_data, K_matches, K_events, K_games>>

\* get_fixtures taking the first list-valued field, whatever its key
GetFixturesAnyList(r) ==
    LET got == MakeRequest(r)
        result == IF got.raised THEN JNull ELSE got.val
    IN  IF result = JNull \/ (IsDict(result) /\ EqualsZero(Get(result, K_totalResults)))
        THEN GetDemoData("/sports/fixtures")
        ELSE IF IsList(result) THEN result
        ELSE IF IsDict(result) /\ FirstListValue(result) # JNull
        THEN FirstListValue(result)
        ELSE GetDemoData("/sports/fixtures")

\* get_fixtures, given what its request meets
GetFixtures(r) ==
    LET got == MakeRequest(r)
        result == IF got.raised THEN JNull ELSE got.val
    IN  IF result = JNull \/ (IsDict(result) /\ EqualsZero(Get(result, K_totalResults)))
        THEN GetDemoData("/sports/fixtures")
        ELSE IF IsList(result) THEN result
        ELSE IF IsDict(result) /\ FirstListUnder(result, FixtureKeys) # JNull
        THEN FirstListUnder(result, FixtureKeys)
        ELSE IF IsDict(result) /\ FirstListValue(result) # JNull
        THEN FirstListValue(result)
        ELSE GetDemoData("/sports/fixtures")

Inactive == Str(<<"I","n","a","c","t","i","v","e">>)

\* get_odds, given what its request meets
GetOdds(r) ==
    LET got == MakeRequest(r)
        result == IF got.raised THEN JNull ELSE got.val
    IN  IF result = JNull \/ (IsDict(result) /\ Get(result, K_status) = JStr(Inactive))
        THEN GetDemoData("/sports/odds")
        ELSE IF IsList(result) THEN result
        ELSE IF IsDict(result) THEN JList(<<result>>)
        ELSE GetDemoData("/sports/odds")

----------------------------------------------------------------------------
(* NLPProcessor.get_relevant_data (src/app/nlp_processor.py) *)

\* d.get(k1) or d.get(k2) or ... or default
RECURSIVE FirstTruthy(_, _, _)
FirstTruthy(d, keys, default) ==
    IF keys = <<>> THEN default
    ELSE IF Truthy(Get(d, Head(keys))) THEN Get(d, Head(keys))
    ELSE FirstTruthy(d, Tail(keys), default)

\* entities.get(key)[0] if entities.get(key) else None: the first element of
\* a list, the first character of a text; a truthy number cannot be indexed
\* and a non-empty dict of text keys has no key 0
FirstOf(entities, key) ==
    LET v == Get(entities, key)
    IN  IF ~Truthy(v) THEN Return(JNull)
        ELSE IF IsList(v) THEN Return(v.xs[1])
        ELSE IF IsStr(v) THEN Return(JStr(<<v.s[1]>>))
        ELSE IF IsDict(v) THEN Raise("KeyError")
        ELSE Raise("TypeError")

FixtureHome(fx) == FirstTruthy(fx, <<K_home_team, K_homeTeam, K_home>>, JStr(<<>>))
FixtureAway(fx) == FirstTruthy(fx, <<K_away_team, K_awayTeam, K_away>>, JStr(<<>>))

\* some entity team is a substring of the fixture's home or away team, case-insensitively
FixtureMatches(fx, teams) ==
    \E i \in 1..Len(teams.xs) :
        \/ Contains(Lower(FixtureHome(fx).s), Lower(teams.xs[i].s))
        \/ Contains(Lower(FixtureAway(fx).s), Lower(teams.xs[i].s))

\* the team filter calls .lower() on the team fields of every dict fixture
FixtureFilterRaises(fixtures) ==
    \E i \in 1..Len(fixtures.xs) :
        /\ IsDict(fixtures.xs[i])
        /\ ~IsStr(FixtureHome(fixtures.xs[i])) \/ ~IsStr(FixtureAway(fixtures.xs[i]))

FilterFixtures(fixtures, teams) ==
    JList(SelectSeq(fixtures.xs, LAMBDA fx : IsDict(fx) /\ FixtureMatches(fx, teams)))

\* get_relevant_data up to its first await: the tournament and the date of
\* the fixtures request are read from the entities, which raises on a value
\* that cannot be indexed
RequestFilters(entities) ==
    LET tournament == FirstOf(entities, K_tournaments)
        date == FirstOf(entities, K_dates)
    IN  IF tournament.raised THEN tournament
        ELSE IF date.raised THEN date
        ELSE Return(JDict(<< <<K_tournament, tournament.val>>, <<K_date, date.val>> >>))

\* get_relevant_data from the answer of get_fixtures (fetched) to the odds
\* request: data["fixtures"] after the team filter, once the id of its first
\* fixture has been read
RelevantFixtures(entities, fetched) ==
    LET teams == Get(entities, K_teams)
        fixtures == IF Truthy(teams) /\ ~FixtureFilterRaises(fetched)
                    THEN FilterFixtures(fetched, teams)
                    ELSE fetched
    IN  IF ~Truthy(fetched) THEN Return(fetched)
        ELSE IF Truthy(teams) /\ FixtureFilterRaises(fetched) THEN Raise("AttributeError")
        ELSE IF Truthy(fixtures) /\ ~IsDict(fixtures.xs[1]) THEN Raise("AttributeError")
        ELSE Return(fixtures)

\* get_relevant_data from the answer of get_odds to its return
RelevantData(fixtures, odds) == JDict(<< <<K_fixtures, fixtures>>, <<K_odds, odds>> >>)

----------------------------------------------------------------------------
(* Upstream answers the model draws from *)

\* fixtures as an upstream may send them: alias field names, and a team that is no text
UpFixtureA ==
    JDict(<<
        <<K_id, JNum(11)>>,
        <<K_homeTeam, JStr(Str(<<"F","C"," ","B","a","r","c","e","l","o","n","a">>))>>,
        <<K_awayTeam, JStr(Str(<<"S","e","v","i","l","l","a">>))>> >>)
UpFixtureB ==
    JDict(<<
        <<K_id, JNum(12)>>,
        <<K_home_team, JStr(Str(<<"L","i","v","e","r","p","o","o","l">>))>>,
        <<K_away_team, JStr(Str(<<"A","r","s","e","n","a","l">>))>> >>)
UpFixtureOdd ==
    JDict(<<
        <<K_id, JNum(13)>>,
        <<K_home_team, JNum(7)>>,
        <<K_away_team, JStr(Str(<<"A","r","s","e","n","a","l">>))>> >>)

\* quotes as an upstream may send them: keyed by "id", lacking a price, and the
\* flat quote of src/mock_api.py
UpQuoteA ==
    JDict(<<
        <<K_id, JNum(7)>>,
        <<K_home_team, JStr(Str(<<"B","a","r","c","e","l","o","n","a">>))>>,
        <<K_away_team, JStr(Str(<<"R","e","a","l"," ","M","a","d","r","i","d">>))>>,
        <<K_odds, JDict(<< <<K_home_win, JDec(210)>>, <<K_draw, JDec(320)>>, <<K_away_win, JDec(350)>> >>)>> >>)
UpQuoteB ==
    JDict(<<
        <<K_id, JNum(9)>>,
        <<K_home_team, JStr(Str(<<"L","i","v","e","r","p","o","o","l">>))>>,
        <<K_away_team, JStr(Str(<<"M","a","n","c","h","e","s","t","e","r"," ","C","i","t","y">>))>>,
        <<K_odds, JDict(<< <<K_draw, JDec(300)>> >>)>> >>)
UpQuoteFlat ==
    JDict(<<
        <<K_fixture_id, JNum(1)>>,
        <<K_market, JStr(Str(<<"m","a","t","c","h","_","r","e","s","u","l","t">>))>>,
        <<K_home_win, JDec(200)>>,
        <<K_draw, JDec(310)>>,
        <<K_away_win, JDec(280)>>,
        <<K_last_updated, JStr(Str(<<"2","0","2","4","-","0","3","-","2","0","T","1","0",":","0","0",":","0","0","Z">>))>> >>)

\* the largest number of fields of an upstream object
MaxDictLen == 2

ApiFixtureFields ==
    { <<k, v>> : k \in {K_fixtures, K_data, K_matches, K_items, K_results, K_totalResults},
                 v \in { JList(<<>>), JList(<<UpFixtureA>>), JNum(0), JNum(2) } }
ApiOddsFields ==
    { <<k, v>> : k \in {K_odds, K_data, K_quotes, K_items, K_status},
                 v \in { JList(<<>>), JList(<<UpQuoteA>>), JStr(Inactive), JStr(Str(<<"A","c","t","i","v","e">>)) } }

KeysOf(kv) == { kv[i][1] : i \in 1..Len(kv) }

\* the dicts of exactly n of the given fields, in every insertion order
RECURSIVE DictsOf(_, _)
DictsOf(fields, n) ==
    IF n = 0 THEN { <<>> }
    ELSE UNION { { Append(kv, f) : f \in { g \in fields : g[1] \notin KeysOf(kv) } } :
                 kv \in DictsOf(fields, n - 1) }

\* the objects of at most max_len of the given fields
ObjectsOf(fields, max_len) ==
    UNION { { JDict(kv) : kv \in DictsOf(fields, n) } : n \in 0..max_len }

\* the bodies of a 200 answer to the fixtures request and to the odds request,
\* their objects of at most max_len fields
ApiFixtureBodies(max_len) ==
    { JNull, JNum(5), JList(<<>>), JList(<<UpFixtureA>>), JList(<<UpFixtureB, UpFixtureA>>) }
        \cup ObjectsOf(ApiFixtureFields, max_len)
ApiOddsBodies(max_len) ==
    { JNull, JNum(5), JList(<<>>), JList(<<UpQuoteA>>), JList(<<UpQuoteB, UpQuoteA>>), UpQuoteA,
      UpQuoteFlat }
        \cup ObjectsOf(ApiOddsFields, max_len)

ApiFixtureAnswers(max_len) ==
    TransportFailures \cup { Json(b) : b \in ApiFixtureBodies(max_len) }
ApiOddsAnswers(max_len) ==
    TransportFailures \cup { Json(b) : b \in ApiOddsBodies(max_len) }

----------------------------------------------------------------------------
(* NLPProcessor: synonym tables and normalization (src/app/nlp_processor.py) *)

\* the texts written with the characters of each member of css
RECURSIVE Strs(_)
Strs(css) == IF css = <<>> THEN <<>> ELSE <<Str(Head(css))>> \o Strs(Tail(css))

\* the rows <<name, names>> of a table written by the characters of its names
RECURSIVE Rows(_)
Rows(table) ==
    IF table = <<>> THEN <<>>
    ELSE << <<Str(Head(table)[1]), Strs(Head(table)[2])>> >> \o Rows(Tail(table))

\* _load_team_synonyms: <<canonical name, aliases>> in the table's order
TeamSynonyms ==
    Rows(<<
       <<<<"b","a","r","c","e","l","o","n","a">>,
          <<<<"b","a","r",cCedilla,"a">>,
            <<"b","a","r","c","a">>,
            <<"f","c"," ","b","a","r","c","e","l","o","n","a">>,
            <<"b","l","a","u","g","r","a","n","a">>>>>>,
       <<<<"r","e","a","l"," ","m","a","d","r","i","d">>,
          <<<<"r","e","a","l">>,
            <<"r","m">>,
            <<"r","e","a","l","m","a","d","r","i","d">>,
            <<"m","a","d","r","i","d">>,
            <<"m","e","r","e","n","g","u","e","s">>>>>>,
       <<<<"a","t","l","e","t","i","c","o"," ","m","a","d","r","i","d">>,
          <<<<"a","t","l",eAcute,"t","i","c","o"," ","d","e"," ","m","a","d","r","i","d">>,
            <<"a","t","l","e","t","i","c","o">>,
            <<"a","t","m">>,
            <<"a","t","l",eAcute,"t","i","c","o"," ","m","a","d","r","i","d">>,
            <<"a","t","l","e","t","i">>>>>>,
       <<<<"l","a","k","e","r","s">>,
          <<<<"l","o","s"," ","a","n","g","e","l","e","s"," ","l","a","k","e","r","s">>,
            <<"l","a"," ","l","a","k","e","r","s">>>>>>,
       <<<<"c","e","l","t","i","c","s">>,
          <<<<"b","o","s","t","o","n"," ","c","e","l","t","i","c","s">>>>>>,
       <<<<"b","a","y","e","r","n"," ","m","u","n","i","c","h">>,
          <<<<"b","a","y","e","r","n">>,
            <<"b","a","y","e","r","n"," ","m",uAcute,"n","i","c","h">>,
            <<"b","a","y","e","r","n"," ","m","u","n","i","c","h">>>>>>,
       <<<<"p","s","g">>,
          <<<<"p","a","r","i","s"," ","s","a","i","n","t"," ","g","e","r","m","a","i","n">>,
            <<"p","a","r","i","s"," ","s","g">>>>>>,
       <<<<"m","a","n","c","h","e","s","t","e","r"," ","c","i","t","y">>,
          <<<<"m","a","n"," ","c","i","t","y">>,
            <<"m","a","n","c","i","t","y">>>>>>,
       <<<<"l","i","v","e","r","p","o","o","l">>,
          <<<<"l","i","v","e","r","p","o","o","l"," ","f","c">>,
            <<"t","h","e"," ","r","e","d","s">>>>>>,
       <<<<"r","i","v","e","r"," ","p","l","a","t","e">>,
          <<<<"r","i","v","e","r">>,
            <<"r","i","v","e","r","p","l","a","t","e">>>>>>,
       <<<<"b","o","c","a"," ","j","u","n","i","o","r","s">>,
          <<<<"b","o","c","a">>,
            <<"b","o","c","a","j","u","n","i","o","r","s">>,
            <<"x","e","n","e","i","z","e","s">>>>>> >>)

\* _load_tournament_synonyms
TournamentSynonyms ==
    Rows(<<
       <<<<"c","h","a","m","p","i","o","n","s"," ","l","e","a","g","u","e">>,
          <<<<"u","e","f","a"," ","c","h","a","m","p","i","o","n","s"," ","l","e","a","g","u","e">>,
            <<"c","h","a","m","p","i","o","n","s">>,
            <<"u","c","l">>>>>>,
       <<<<"p","r","e","m","i","e","r"," ","l","e","a","g","u","e">>,
          <<<<"p","r","e","m","i","e","r">>,
            <<"e","p","l">>,
            <<"e","n","g","l","i","s","h"," ","p","r","e","m","i","e","r"," ","l","e","a","g","u","e">>>>>>,
       <<<<"l","i","g","a"," ","e","s","p","a",nTilde,"o","l","a">>,
          <<<<"l","a"," ","l","i","g","a">>,
            <<"p","r","i","m","e","r","a"," ","d","i","v","i","s","i",oAcute,"n">>,
            <<"l","a","l","i","g","a">>>>>>,
       <<<<"n","b","a">>,
          <<<<"n","b","a">>,
            <<"n","a","t","i","o","n","a","l"," ","b","a","s","k","e","t","b","a","l","l"," ","a","s","s","o","c","i","a","t","i","o","n">>>>>>,
       <<<<"b","u","n","d","e","s","l","i","g","a">>,
          <<<<"b","u","n","d","e","s","l","i","g","a">>,
            <<"l","i","g","a"," ","a","l","e","m","a","n","a">>>>>>,
       <<<<"s","e","r","i","e"," ","a">>,
          <<<<"s","e","r","i","e"," ","a">>,
            <<"l","i","g","a"," ","i","t","a","l","i","a","n","a">>>>>>,
       <<<<"c","o","p","a"," ","l","i","b","e","r","t","a","d","o","r","e","s">>,
          <<<<"l","i","b","e","r","t","a","d","o","r","e","s">>,
            <<"c","o","p","a"," ","l","i","b","e","r","t","a","d","o","r","e","s">>>>>> >>)

\* a table of bet types that lists the draw
BetTypeSynonymsWithDraw ==
    Rows(<<
       <<<<"e","m","p","a","t","e">>,
          <<<<"e","m","p","a","t","e">>,
            <<"d","r","a","w">>>>>>,
       <<<<"m","o","n","e","y","l","i","n","e">>,
          <<<<"m","o","n","e","y","l","i","n","e">>,
            <<"g","a","n","a","d","o","r">>>>>> >>)

\* _load_bet_type_synonyms
BetTypeSynonyms ==
    Rows(<<
       <<<<"m","o","n","e","y","l","i","n","e">>,
          <<<<"m","o","n","e","y","l","i","n","e">>,
            <<"g","a","n","a","d","o","r">>,
            <<"w","i","n","n","e","r">>,
            <<"v","i","c","t","o","r","i","a">>,
            <<"v","e","n","c","e","d","o","r">>>>>>,
       <<<<"s","p","r","e","a","d">>,
          <<<<"s","p","r","e","a","d">>,
            <<"h","a","n","d","i","c","a","p">>,
            <<"h","a","n","d","i","c","a","p"," ","a","s","i",aAcute,"t","i","c","o">>,
            <<"v","e","n","t","a","j","a">>,
            <<"h",aAcute,"n","d","i","c","a","p">>>>>>,
       <<<<"o","v","e","r","/","u","n","d","e","r">>,
          <<<<"o","v","e","r","/","u","n","d","e","r">>,
            <<"t","o","t","a","l"," ","g","o","l","e","s">>,
            <<"t","o","t","a","l"," ","p","u","n","t","o","s">>,
            <<"a","m","b","o","s"," ","m","a","r","c","a","n">>,
            <<"g","g">>,
            <<"g","o","l","e","s">>>>>>,
       <<<<"p","a","r","l","a","y">>,
          <<<<"p","a","r","l","a","y">>,
            <<"c","o","m","b","i","n","a","d","a">>,
            <<"m",uAcute,"l","t","i","p","l","e">>,
            <<"c","o","m","b","i","n","a","d","o">>>>>>,
       <<<<"p","r","o","p"," ","b","e","t">>,
          <<<<"p","r","o","p"," ","b","e","t">>,
            <<"a","p","u","e","s","t","a"," ","d","e"," ","p","r","o","p","u","e","s","t","a">>,
            <<"j","u","g","a","d","o","r"," ","e","s","p","e","c",iAcute,"f","i","c","o">>,
            <<"p","r","o","p","u","e","s","t","a">>>>>> >>)

\* `x in xs` on a list of strings
InList(x, xs) == \E i \in 1..Len(xs) : xs[i] = x

\* the loop of the three normalize functions: the canonical name of the first
\* table row that has name_lower as an alias or as its canonical name, else
\* the given default
Canonical(table, name_lower, default) ==
    LET hit(i) == InList(name_lower, table[i][2]) \/ name_lower = table[i][1]
    IN  IF \E i \in 1..Len(table) : hit(i)
        THEN table[CHOOSE i \in 1..Len(table) : hit(i) /\ \A j \in 1..(i - 1) : ~hit(j)][1]
        ELSE default

\* a normalize that returns the lower-cased name when no row matches
NormalizeLowering(table, name) == Canonical(table, Lower(name), Lower(name))

\* the three normalize functions: the name is looked up in lower case and
\* returned as given when no row matches
Normalize(table, name) == Canonical(table, Lower(name), name)

NormalizeTeamName(team_name) == Normalize(TeamSynonyms, team_name)
NormalizeTournamentName(tournament_name) == Normalize(TournamentSynonyms, tournament_name)
NormalizeBetType(bet_type) == Normalize(BetTypeSynonyms, bet_type)

----------------------------------------------------------------------------
(* NLPProcessor: entity extraction *)

NonSportsKeywords ==
    Strs(<<<<"t","i","e","m","p","o">>,
      <<"c","l","i","m","a">>,
      <<"n","o","t","i","c","i","a","s">>,
      <<"n","o","t","i","c","i","a">>,
      <<"p","o","l",iAcute,"t","i","c","a">>,
      <<"e","n","t","r","e","t","e","n","i","m","i","e","n","t","o">>,
      <<"m",uAcute,"s","i","c","a">>,
      <<"p","e","l",iAcute,"c","u","l","a">>,
      <<"s","e","r","i","e","s">>,
      <<"t","e","c","n","o","l","o","g",iAcute,"a">>,
      <<"c","i","e","n","c","i","a">>,
      <<"h","i","s","t","o","r","i","a">>>>)

\* question_patterns: <<question type, cues>> in the dict's order
QuestionPatterns ==
    Rows(<<
       <<<<"a","n",aAcute,"l","i","s","i","s"," ","y"," ","r","e","c","o","m","e","n","d","a","c","i",oAcute,"n">>,
          <<<<"a","n","a","l","i","z","a">>,
            <<"r","e","c","o","m","i","e","n","d","a">>,
            <<"r","e","c","o","m","e","n","d","a","c","i",oAcute,"n">>,
            <<"p","r","e","d","i","c","e">>,
            <<"p","r","o","n",oAcute,"s","t","i","c","o">>,
            <<"q","u",eAcute," ","a","p","u","e","s","t","a">>>>>>,
       <<<<"e","s","t","a","d",iAcute,"s","t","i","c","a","s">>,
          <<<<"e","s","t","a","d",iAcute,"s","t","i","c","a","s">>,
            <<"e","s","t","a","d","i","s","t","i","c","a","s">>,
            <<"d","a","t","o","s">>,
            <<"n",uAcute,"m","e","r","o","s">>,
            <<"r",eAcute,"c","o","r","d">>,
            <<"r","e","c","o","r","d">>,
            <<"h","i","s","t","o","r","i","a","l">>>>>>,
       <<<<"i","n","f","o","r","m","a","c","i",oAcute,"n"," ","g","e","n","e","r","a","l">>,
          <<<<"q","u","i",eAcute,"n">>,
            <<"q","u",eAcute>>,
            <<"c","u",aAcute,"n","d","o">>,
            <<"d",oAcute,"n","d","e">>,
            <<"c",oAcute,"m","o">>,
            <<"i","n","f","o","r","m","a","c","i",oAcute,"n">>,
            <<"d","e","t","a","i","l","s">>>>>> >>)

\* any(x in text for x in xs)
AnyIn(xs, text) == \E i \in 1..Len(xs) : Contains(text, xs[i])

\* the canonical names, in table order, of the rows with an alias inside the text
RECURSIVE Detect(_, _)
Detect(table, text) ==
    IF table = <<>> THEN <<>>
    ELSE (IF AnyIn(Head(table)[2], text) THEN <<JStr(Head(table)[1])>> ELSE <<>>)
             \o Detect(Tail(table), text)

Hoy == Str(<<"h","o","y">>)
Manana == Str(<<"m","a",nTilde,"a","n","a">>)

FinDeSemana == Str(<<"f","i","n"," ","d","e"," ","s","e","m","a","n","a">>)

(* The calendar of datetime: a date is a record of year, month and day. *)
Date(year, month, day) == [year |-> year, month |-> month, day |-> day]

IsLeap(year) == year % 4 = 0 /\ (year % 100 # 0 \/ year % 400 = 0)

DaysInMonth(year, month) ==
    IF month = 2 /\ IsLeap(year) THEN 29
    ELSE <<31, 28, 31, 30, 31, 30, 31, 31, 30, 31, 30, 31>>[month]

\* datetime(year, month, day) is a date
IsDate(year, month, day) ==
    year \in 1..9999 /\ month \in 1..12 /\ day \in 1..DaysInMonth(year, month)

\* date.toordinal(): the days from 0001-01-01, which is day 1
RECURSIVE DaysBeforeMonth(_, _)
DaysBeforeMonth(year, month) ==
    IF month = 1 THEN 0
    ELSE DaysBeforeMonth(year, month - 1) + DaysInMonth(year, month - 1)
ToOrdinal(d) ==
    (d.year - 1) * 365 + (d.year - 1) \div 4 - (d.year - 1) \div 100 + (d.year - 1) \div 400
        + DaysBeforeMonth(d.year, d.month) + d.day

\* date.weekday(): Monday is 0 and Saturday is 5
Weekday(d) == (ToOrdinal(d) + 6) % 7

\* d + timedelta(days=n)
RECURSIVE PlusDays(_, _)
PlusDays(d, n) ==
    IF n = 0 THEN d
    ELSE IF d.day < DaysInMonth(d.year, d.month)
    THEN PlusDays(Date(d.year, d.month, d.day + 1), n - 1)
    ELSE IF d.month < 12 THEN PlusDays(Date(d.year, d.month + 1, 1), n - 1)
    ELSE PlusDays(Date(d.year + 1, 1, 1), n - 1)

\* str(n) for a natural number
RECURSIVE NatToStr(_)
NatToStr(n) ==
    IF n < 10 THEN <<48 + n>>
    ELSE NatToStr(n \div 10) \o <<48 + (n % 10)>>

\* d.strftime("%Y-%m-%d"): the month and the day in two digits, and the year
\* as the C library prints it, on Linux without leading zeros
Strftime(d) ==
    NatToStr(d.year) \o <<45, 48 + (d.month \div 10), 48 + (d.month % 10),
                          45, 48 + (d.day \div 10), 48 + (d.day % 10)>>

\* _get_next_weekend
GetNextWeekend(today) == Strftime(PlusDays(today, (12 - Weekday(today)) % 7))

(* re.findall with the first two date patterns.  A pattern is tried at every *)
(* position from left to right, and after a match the search goes on behind  *)
(* it.  Every piece of both patterns has one length only that lets the rest  *)
(* match: a run of digits ends at a separator, a space or a word boundary.   *)

\* the digits, and the white space, at the head of s from i on
RECURSIVE DigitRun(_, _)
DigitRun(s, i) == IF i <= Len(s) /\ IsDigit(s[i]) THEN 1 + DigitRun(s, i + 1) ELSE 0
RECURSIVE SpaceRun(_, _)
SpaceRun(s, i) == IF i <= Len(s) /\ IsSpace(s[i]) THEN 1 + SpaceRun(s, i + 1) ELSE 0

\* \b before the character at i
WordBoundary(s, i) == (i > 1 /\ IsWord(s[i - 1])) # (i <= Len(s) /\ IsWord(s[i]))

\* [/-] at i
IsDateSeparator(s, i) == i <= Len(s) /\ s[i] \in {45, 47}

\* \b(\d{1,2}[/-]\d{1,2}[/-]\d{2,4})\b at i: the position behind the match,
\* 0 without a match
NumericDateAt(s, i) ==
    LET year(k, digits) ==
            IF digits \in 2..4 /\ WordBoundary(s, k + digits) THEN k + digits ELSE 0
        second(j, digits) ==
            IF digits \in 1..2 /\ IsDateSeparator(s, j + digits)
            THEN year(j + digits + 1, DigitRun(s, j + digits + 1)) ELSE 0
        first(digits) ==
            IF digits \in 1..2 /\ IsDateSeparator(s, i + digits)
            THEN second(i + digits + 1, DigitRun(s, i + digits + 1)) ELSE 0
    IN  IF WordBoundary(s, i) THEN first(DigitRun(s, i)) ELSE 0

MonthNames ==
    Strs(<< <<"e","n","e","r","o">>, <<"f","e","b","r","e","r","o">>, <<"m","a","r","z","o">>,
            <<"a","b","r","i","l">>, <<"m","a","y","o">>, <<"j","u","n","i","o">>,
            <<"j","u","l","i","o">>, <<"a","g","o","s","t","o">>,
            <<"s","e","p","t","i","e","m","b","r","e">>, <<"o","c","t","u","b","r","e">>,
            <<"n","o","v","i","e","m","b","r","e">>, <<"d","i","c","i","e","m","b","r","e">>>>)

\* a lower-case letter a to z of a pattern against a character, under
\* re.IGNORECASE: the letter, its capital, and the characters that lower to
\* it or that the re module takes for the same letter (the dotted capital I
\* and the dotless i for i, the long s for s, the Kelvin sign for k)
MatchesLetter(c, letter) ==
    \/ c = letter
    \/ c = letter - 32
    \/ letter = 105 /\ c \in {304, 305}
    \/ letter = 115 /\ c = 383
    \/ letter = 107 /\ c = 8490

\* the word at i of s, under re.IGNORECASE
MatchesWord(s, i, word) ==
    /\ i + Len(word) - 1 <= Len(s)
    /\ \A k \in 1..Len(word) : MatchesLetter(s[i + k - 1], word[k])

\* the length of the month name at i, 0 without one
MonthNameAt(s, i) ==
    IF \E m \in 1..Len(MonthNames) : MatchesWord(s, i, MonthNames[m])
    THEN Len(MonthNames[CHOOSE m \in 1..Len(MonthNames) : MatchesWord(s, i, MonthNames[m])])
    ELSE 0

\* \b(\d{1,2}\s+(?:enero|...|diciembre)\s+\d{4})\b at i: the position behind
\* the match, 0 without a match
MonthDateAt(s, i) ==
    LET year(k, spaces) ==
            IF spaces > 0 /\ DigitRun(s, k + spaces) = 4 /\ WordBoundary(s, k + spaces + 4)
            THEN k + spaces + 4 ELSE 0
        name(j, letters) ==
            IF letters > 0 THEN year(j + letters, SpaceRun(s, j + letters)) ELSE 0
        month(j, spaces) ==
            IF spaces > 0 THEN name(j + spaces, MonthNameAt(s, j + spaces)) ELSE 0
        day(digits) ==
            IF digits \in 1..2 THEN month(i + digits, SpaceRun(s, i + digits)) ELSE 0
    IN  IF WordBoundary(s, i) THEN day(DigitRun(s, i)) ELSE 0

\* re.findall(pattern, s, re.IGNORECASE) from i on, for the first pattern
\* (numeric) or the second
RECURSIVE FindDates(_, _, _)
FindDates(numeric, s, i) ==
    LET found(end) ==
            IF end = 0 THEN FindDates(numeric, s, i + 1)
            ELSE <<SubSeq(s, i, end - 1)>> \o FindDates(numeric, s, end)
    IN  IF i > Len(s) THEN <<>>
        ELSE found(IF numeric THEN NumericDateAt(s, i) ELSE MonthDateAt(s, i))

(* dateutil's parse(timestr, fuzzy=True) on a match of these two patterns. *)
(* Its lexer cuts the match into numbers, words, separators and spaces;    *)
(* the month name of the second pattern is Spanish, no word the parser     *)
(* knows, and fuzzy skips it.                                              *)

\* int of the run of digits of s at i
RECURSIVE IntAt(_, _, _)
IntAt(s, i, acc) ==
    IF i <= Len(s) /\ IsDigit(s[i]) THEN IntAt(s, i + 1, acc * 10 + DigitVal(s[i])) ELSE acc

\* parserinfo.convertyear: a year below 100 that was not written with its
\* century is taken into the hundred years around this_year, the year the
\* parser was made in
ConvertYear(year, century_specified, this_year) ==
    LET near(guess) ==
            IF guess >= this_year + 50 THEN guess - 100
            ELSE IF guess < this_year - 50 THEN guess + 100
            ELSE guess
    IN  IF year < 100 /\ ~century_specified
        THEN near(year + (this_year \div 100) * 100) ELSE year

\* _ymd.resolve_ymd on three numbers, none of them at the place of a year
\* that _ymd.append labelled: a first number above 31 is the year, one above
\* 12 the day, any other the month
ResolveThree(ymd) ==
    IF ymd[1] > 31 THEN [year |-> ymd[1], month |-> ymd[2], day |-> ymd[3]]
    ELSE IF ymd[1] > 12 THEN [day |-> ymd[1], month |-> ymd[2], year |-> ymd[3]]
    ELSE [month |-> ymd[1], day |-> ymd[2], year |-> ymd[3]]

\* _ymd.resolve_ymd on two numbers
ResolveTwo(ymd) ==
    IF ymd[1] > 31 THEN [year |-> ymd[1], month |-> ymd[2]]
    ELSE IF ymd[2] > 31 THEN [month |-> ymd[1], year |-> ymd[2]]
    ELSE [month |-> ymd[1], day |-> ymd[2]]

\* the rest of parse: the year converted, the fields that were not found
\* taken from default, a default day behind the end of the month replaced
\* by the month's last day, and ValueError for what is no date
BuildNaive(res, century_specified, default, this_year) ==
    LET built(year, month) ==
            IF month \notin 1..12 THEN Raise("ValueError")
            ELSE IF "day" \in DOMAIN res
            THEN (IF IsDate(year, month, res.day) THEN Return(Date(year, month, res.day))
                  ELSE Raise("ValueError"))
            ELSE IF year \notin 1..9999 THEN Raise("ValueError")
            ELSE IF default.day > DaysInMonth(year, month)
            THEN Return(Date(year, month, DaysInMonth(year, month)))
            ELSE Return(Date(year, month, default.day))
    IN  built(IF "year" \in DOMAIN res
              THEN ConvertYear(res.year, century_specified, this_year) ELSE default.year,
              res.month)

\* parse of a match of the first pattern.  With the same separator twice the
\* three numbers are read as texts, and a third of more than two digits is
\* written with its century; with two separators the third is read alone,
\* as a number, and is written with its century when it is above 100.
ParseNumericDate(timestr, default, this_year) ==
    LET parsed(second, third) ==
            BuildNaive(ResolveThree(<<IntAt(timestr, 1, 0), IntAt(timestr, second, 0),
                                      IntAt(timestr, third, 0)>>),
                       IF timestr[second - 1] = timestr[third - 1]
                       THEN Len(timestr) - third + 1 > 2
                       ELSE IntAt(timestr, third, 0) > 100,
                       default, this_year)
        from(second) == parsed(second, second + DigitRun(timestr, second) + 1)
    IN  from(DigitRun(timestr, 1) + 2)

\* parse of a match of the second pattern: the day and the year are the two
\* numbers, the year is the last four characters
ParseMonthDate(timestr, default, this_year) ==
    BuildNaive(ResolveTwo(<<IntAt(timestr, 1, 0), IntAt(timestr, Len(timestr) - 3, 0)>>),
               IntAt(timestr, Len(timestr) - 3, 0) > 100, default, this_year)

\* the dates of the matches that parse, as strftime prints them; a match
\* that does not parse is skipped
RECURSIVE ParsedDates(_, _, _, _)
ParsedDates(numeric, matches, default, this_year) ==
    LET printed(parsed_date) ==
            IF parsed_date.raised THEN <<>> ELSE <<Strftime(parsed_date.val)>>
    IN  IF matches = <<>> THEN <<>>
        ELSE printed(IF numeric THEN ParseNumericDate(Head(matches), default, this_year)
                     ELSE ParseMonthDate(Head(matches), default, this_year))
                 \o ParsedDates(numeric, Tail(matches), default, this_year)

(* What a call of _extract_dates_with_regex takes from its environment:      *)
(*   today  the day datetime.now() gives                                     *)
(*   year   the year in which the date parser was made, when the module was  *)
(*          imported                                                         *)
(*   order  the order in which list(set(dates)) yields the dates, which the  *)
(*          hash seed of the process decides                                 *)
Clocks ==
    { [today |-> Date(2024, 3, 20), year |-> 2024],
      [today |-> Date(2024, 3, 22), year |-> 2024],
      [today |-> Date(2024, 3, 23), year |-> 2024],
      [today |-> Date(2024, 12, 31), year |-> 2024],
      [today |-> Date(2025, 1, 31), year |-> 2024] }

\* the number of distinct dates of a query up to which every order is drawn
MaxDates == 3

RECURSIVE Factorial(_)
Factorial(n) == IF n = 0 THEN 1 ELSE n * Factorial(n - 1)

DateEnvs ==
    { [today |-> clock.today, year |-> clock.year, order |-> order] :
        clock \in Clocks, order \in 0..(Factorial(MaxDates) - 1) }

\* the list `dates` of _extract_dates_with_regex before the duplicates are
\* dropped: the matches of the first pattern that parse, those of the second,
\* and the days of the keywords "hoy", "ma\~nana" and "fin de semana".  The
\* matches of the third and the fourth pattern are words and spaces, in which
\* the parser finds no date: they are skipped.
DatesFound(query, today, this_year) ==
    LET relative(query_lower) ==
            (IF Contains(query_lower, Hoy) THEN <<Strftime(today)>> ELSE <<>>)
                \o (IF Contains(query_lower, Manana)
                    THEN <<Strftime(PlusDays(today, 1))>> ELSE <<>>)
                \o (IF Contains(query_lower, FinDeSemana)
                    THEN <<GetNextWeekend(today)>> ELSE <<>>)
    IN  ParsedDates(TRUE, FindDates(TRUE, query, 1), today, this_year)
            \o ParsedDates(FALSE, FindDates(FALSE, query, 1), today, this_year)
            \o relative(Lower(query))

\* the members of a list, each once, in the order of their first places
RECURSIVE Distinct(_, _)
Distinct(xs, i) ==
    IF i > Len(xs) THEN <<>>
    ELSE (IF \E j \in 1..(i - 1) : xs[j] = xs[i] THEN <<>> ELSE <<xs[i]>>)
             \o Distinct(xs, i + 1)

\* the order-th arrangement of a list
RECURSIVE Arranged(_, _)
Arranged(xs, order) ==
    LET taking(j) ==
            <<xs[j]>> \o Arranged(SubSeq(xs, 1, j - 1) \o SubSeq(xs, j + 1, Len(xs)),
                                  order \div Len(xs))
    IN  IF xs = <<>> THEN <<>> ELSE taking((order % Len(xs)) + 1)

\* _extract_dates_with_regex: list(set(dates)) drops the duplicates and
\* yields the dates in the order of env
ExtractDatesWithRegex(query, env) ==
    LET texts(dates) == [i \in 1..Len(dates) |-> JStr(dates[i])]
    IN  texts(Arranged(Distinct(DatesFound(query, env.today, env.year), 1), env.order))

\* one environment for every list of dates that the extraction can give for
\* the query
EnvsFor(query) ==
    { CHOOSE env \in DateEnvs : ExtractDatesWithRegex(query, env) = dates :
        dates \in { ExtractDatesWithRegex(query, env) : env \in DateEnvs } }

NonSports == Str(<<"n","o","n","_","s","p","o","r","t","s">>)
InformacionGeneral == Str(<<"i","n","f","o","r","m","a","c","i",oAcute,"n"," ","g","e","n","e","r","a","l">>)
AnalisisYRecomendacion == Str(<<"a","n",aAcute,"l","i","s","i","s"," ","y"," ","r","e","c","o","m","e","n","d","a","c","i",oAcute,"n">>)
Estadisticas == Str(<<"e","s","t","a","d",iAcute,"s","t","i","c","a","s">>)

\* a classification in which the last pattern group with a cue wins
RECURSIVE QuestionTypeLast(_, _)
QuestionTypeLast(patterns, text) ==
    IF patterns = <<>> THEN InformacionGeneral
    ELSE IF AnyIn(patterns[Len(patterns)][2], text) THEN patterns[Len(patterns)][1]
    ELSE QuestionTypeLast(SubSeq(patterns, 1, Len(patterns) - 1), text)

\* the question type of the first pattern group with a cue inside the text
RECURSIVE QuestionType(_, _)
QuestionType(patterns, text) ==
    IF patterns = <<>> THEN InformacionGeneral
    ELSE IF AnyIn(Head(patterns)[2], text) THEN Head(patterns)[1]
    ELSE QuestionType(Tail(patterns), text)

Entities(teams, tournaments, dates, bet_types, question_type) ==
    JDict(<< <<K_teams, JList(teams)>>, <<K_tournaments, JList(tournaments)>>,
             <<K_dates, JList(dates)>>, <<K_bet_types, JList(bet_types)>>,
             <<K_question_type, JStr(question_type)>> >>)

\* a fallback whose keyword test sets the question type and goes on scanning
ExtractEntitiesFallbackScanning(query, env) ==
    LET scans(query_lower) ==
            Entities(Detect(TeamSynonyms, query_lower),
                     Detect(TournamentSynonyms, query_lower),
                     ExtractDatesWithRegex(query, env),
                     Detect(BetTypeSynonyms, query_lower),
                     IF AnyIn(NonSportsKeywords, query_lower) THEN NonSports
                     ELSE QuestionType(QuestionPatterns, query_lower))
    IN  scans(Lower(query))

\* _extract_entities_fallback
ExtractEntitiesFallback(query, env) ==
    LET scans(query_lower) ==
            IF AnyIn(NonSportsKeywords, query_lower)
            THEN Entities(<<>>, <<>>, <<>>, <<>>, NonSports)
            ELSE Entities(Detect(TeamSynonyms, query_lower),
                          Detect(TournamentSynonyms, query_lower),
                          ExtractDatesWithRegex(query, env),
                          Detect(BetTypeSynonyms, query_lower),
                          QuestionType(QuestionPatterns, query_lower))
    IN  scans(Lower(query))

(* What the Gemini call of _extract_entities_with_gemini can yield:          *)
(*   [kind |-> "raise"]              the call raises, or its text is no JSON *)
(*   [kind |-> "json", body |-> v]   its text, fences stripped, parses to v  *)
ModelRaises == [kind |-> "raise"]
ModelJson(v) == [kind |-> "json", body |-> v]

\* extract_entities: the model's JSON when the model is loaded and its call
\* succeeds, the fallback otherwise
ExtractEntities(query, loaded, m, env) ==
    IF loaded /\ m.kind = "json" THEN m.body ELSE ExtractEntitiesFallback(query, env)

\* d with d[k] = v, the key keeping its place
SetItem(d, k, v) ==
    IF Has(d, k)
    THEN JDict([i \in 1..Len(d.kv) |-> IF d.kv[i][1] = k THEN <<k, v>> ELSE d.kv[i]])
    ELSE JDict(Append(d.kv, <<k, v>>))

\* one of the three normalization passes of extract_entities_enhanced
NormalizeField(d, key, table) ==
    IF Truthy(Get(d, key))
    THEN SetItem(d, key,
             JList([i \in 1..Len(Get(d, key).xs) |-> JStr(Normalize(table, Get(d, key).xs[i].s))]))
    ELSE d

\* the pass iterates the field and calls .lower() on every value: a number
\* cannot be iterated and a value that is no text has no lower().  (A field
\* that is itself a text or a dict is outside the answers the model draws.)
FieldRaises(d, key) ==
    /\ Truthy(Get(d, key))
    /\ \/ Get(d, key).t \in {"num", "dec", "bool"}
       \/ /\ IsList(Get(d, key))
          /\ \E i \in 1..Len(Get(d, key).xs) : ~IsStr(Get(d, key).xs[i])

\* extract_entities_enhanced
ExtractEntitiesEnhanced(query, loaded, m, env) ==
    LET enhanced(basic) ==
            IF ~IsDict(basic) THEN Raise("AttributeError")
            ELSE IF FieldRaises(basic, K_teams) \/ FieldRaises(basic, K_tournaments)
                        \/ FieldRaises(basic, K_bet_types)
            THEN Raise("TypeError or AttributeError")
            ELSE Return(NormalizeField(NormalizeField(NormalizeField(basic,
                            K_teams, TeamSynonyms), K_tournaments, TournamentSynonyms),
                            K_bet_types, BetTypeSynonyms))
    IN  enhanced(ExtractEntities(query, loaded, m, env))

----------------------------------------------------------------------------
(* ConversationContextManager (src/app/chatbot.py).  contexts maps the       *)
(* session ids that have an entry to their context dict, a function from     *)
(* the keys set so far to their values.                                      *)

EmptyDict == <<>>

\* contexts.get(session_id, {}): reading creates no entry
GetContext(cs, session_id) == IF session_id \in DOMAIN cs THEN cs[session_id] ELSE EmptyDict

\* context.get(key)
ContextGet(context, key) == IF key \in DOMAIN context THEN context[key] ELSE JNull

\* an update that keeps the value a key already holds, unless it is falsy
UpdateContextKeepingFirst(cs, session_id, key, value) ==
    IF Truthy(ContextGet(GetContext(cs, session_id), key)) THEN cs
    ELSE (session_id :> ((key :> value) @@ GetContext(cs, session_id))) @@ cs

\* an update that rebuilds the store with the entry of this session alone
UpdateContextAlone(cs, session_id, key, value) ==
    session_id :> ((key :> value) @@ GetContext(cs, session_id))

\* update_context
UpdateContext(cs, session_id, key, value) ==
    (session_id :> ((key :> value) @@ GetContext(cs, session_id))) @@ cs

\* a clear_context that empties the store
ClearContextAll(cs, session_id) == EmptyDict

\* clear_context
ClearContext(cs, session_id) == [s \in (DOMAIN cs) \ {session_id} |-> cs[s]]

\* get_context(session_id).get("pending_bet")
PendingBet(cs, session_id) == ContextGet(GetContext(cs, session_id), "pending_bet")

----------------------------------------------------------------------------
(* SportsBettingChatbot: the user-facing texts.  A text is modelled by the   *)
(* method or line that builds it and by the values it interpolates.          *)

ErrorResponse == [kind |-> "error"]
NonSportsResponse == [kind |-> "non_sports"]
NoDataResponse(entities) ==
    [kind |-> "no_data", teams |-> Get(entities, K_teams), tournaments |-> Get(entities, K_tournaments)]
LlmResponse == [kind |-> "llm_text"]
\* the main bet is entities["bet_types"][0].upper(); without bet types the
\* text recommends the moneyline
AnalysisResponse(entities) ==
    [kind |-> "analysis", teams |-> Get(entities, K_teams),
     main_bet |-> IF Truthy(Get(entities, K_bet_types))
                  THEN JStr(Upper(Item(entities, K_bet_types).xs[1].s))
                  ELSE JNull]
\* the section headers of _generate_resolutive_stats_response, in the order it
\* writes them; the second only with entity teams
StatsSections(entities) ==
    <<"ANALISIS ESTADISTICO COMPLETO">>
    \o (IF Truthy(Get(entities, K_teams)) THEN <<"Estadisticas Solicitadas">> ELSE <<>>)
    \o <<"Metricas Clave Analizadas", "Datos Estadisticos Relevantes",
         "Tendencias Identificadas", "Aplicacion Practica">>
StatsResponse(entities) ==
    [kind |-> "stats", teams |-> Get(entities, K_teams), sections |-> StatsSections(entities)]
GeneralResponse(entities, query) ==
    [kind |-> "general", query |-> query, teams |-> Get(entities, K_teams),
     tournaments |-> Get(entities, K_tournaments)]
NoOddsResponse == [kind |-> "no_odds"]
NeedStakeResponse == [kind |-> "need_stake"]
ProposalResponse(quote, selection, stake, potential_winnings) ==
    [kind |-> "proposal", home_team |-> Item(quote, K_home_team), away_team |-> Item(quote, K_away_team),
     selection |-> selection, price |-> Get(Item(quote, K_odds), selection),
     stake |-> stake, potential_winnings |-> potential_winnings]
NoPendingResponse == [kind |-> "no_pending"]
ConfirmedResponse(pending_bet, result) ==
    [kind |-> "confirmed", bet_id |-> Get(result, K_bet_id), stake |-> Item(pending_bet, K_stake),
     potential_winnings |-> Item(pending_bet, K_potential_winnings), status |-> Get(result, K_status)]
PlacementFailedResponse == [kind |-> "placement_failed"]

----------------------------------------------------------------------------
(* SportsBettingChatbot.process_betting_query *)

\* the value of the digits of q from position i on, after the digits read into acc
\* a stake parser that takes 1 when the query holds no number
ParseStakeOrOne(query) ==
    IF \E i \in 1..Len(query) : IsDigit(query[i])
    THEN JNum(IntAt(query,
             CHOOSE i \in 1..Len(query) :
                 IsDigit(query[i]) /\ \A j \in 1..(i - 1) : ~IsDigit(query[j]), 0))
    ELSE JNum(1)

(* re.search(r'(\$|EUR|GBP)?\s*(\d+)(?:\s*(dolares|euros|libras))?', query)  *)
(* and float(group(2)): the leftmost match takes the first run of digits of   *)
(* the query, whole, whatever stands before or after it; None without a digit *)
ParseStake(query) ==
    IF \E i \in 1..Len(query) : IsDigit(query[i])
    THEN JNum(IntAt(query,
             CHOOSE i \in 1..Len(query) :
                 IsDigit(query[i]) /\ \A j \in 1..(i - 1) : ~IsDigit(query[j]), 0))
    ELSE JNull

\* str(n) of an int
IntToStr(n) == IF n < 0 THEN <<45>> \o NatToStr(0 - n) ELSE NatToStr(n)

\* repr of a float of h hundredths: the shortest digits that read back, with
\* at least one after the point
FloatToStr(h) ==
    LET digits(a) ==
            NatToStr(a \div 100) \o <<46>>
                \o (IF a % 10 = 0 THEN <<48 + ((a % 100) \div 10)>>
                    ELSE <<48 + ((a % 100) \div 10), 48 + (a % 10)>>)
    IN  IF h < 0 THEN <<45>> \o digits(0 - h) ELSE digits(h)

\* the n lower-case hexadecimal digits of c
RECURSIVE Hex(_, _)
Hex(c, n) ==
    IF n = 0 THEN <<>>
    ELSE Hex(c \div 16, n - 1) \o <<(IF c % 16 < 10 THEN 48 ELSE 87) + (c % 16)>>

\* one character of the repr of a str in the quote `quote`
ReprChar(c, quote) ==
    IF c = quote \/ c = 92 THEN <<92, c>>
    ELSE IF c = 9 THEN <<92, 116>>
    ELSE IF c = 10 THEN <<92, 110>>
    ELSE IF c = 13 THEN <<92, 114>>
    ELSE IF IsPrintable(c) THEN <<c>>
    ELSE IF c < 256 THEN <<92, 120>> \o Hex(c, 2)
    ELSE IF c < 65536 THEN <<92, 117>> \o Hex(c, 4)
    ELSE <<92, 85>> \o Hex(c, 8)

RECURSIVE ReprChars(_, _, _)
ReprChars(s, i, quote) ==
    IF i > Len(s) THEN <<>> ELSE ReprChar(s[i], quote) \o ReprChars(s, i + 1, quote)

\* repr of a str: in single quotes, or in double quotes when the text holds a
\* single quote and no double quote
ReprStr(s) ==
    LET quoted(quote) == <<quote>> \o ReprChars(s, 1, quote) \o <<quote>>
    IN  quoted(IF (\E i \in 1..Len(s) : s[i] = 39) /\ ~(\E i \in 1..Len(s) : s[i] = 34)
               THEN 34 ELSE 39)

\* repr(v)
RECURSIVE Repr(_)
RECURSIVE ReprItems(_, _)
RECURSIVE ReprPairs(_, _)
Repr(v) ==
    CASE v.t = "null" -> Str(<<"N","o","n","e">>)
      [] v.t = "bool" -> IF v.b THEN Str(<<"T","r","u","e">>) ELSE Str(<<"F","a","l","s","e">>)
      [] v.t = "num" -> IntToStr(v.n)
      [] v.t = "dec" -> FloatToStr(v.h)
      [] v.t = "str" -> ReprStr(v.s)
      [] v.t = "list" -> <<91>> \o ReprItems(v.xs, 1) \o <<93>>
      [] v.t = "dict" -> <<123>> \o ReprPairs(v.kv, 1) \o <<125>>
ReprItems(xs, i) ==
    IF i > Len(xs) THEN <<>>
    ELSE (IF i > 1 THEN <<44, 32>> ELSE <<>>) \o Repr(xs[i]) \o ReprItems(xs, i + 1)
ReprPairs(kv, i) ==
    IF i > Len(kv) THEN <<>>
    ELSE (IF i > 1 THEN <<44, 32>> ELSE <<>>)
             \o ReprStr(kv[i][1]) \o <<58, 32>> \o Repr(kv[i][2]) \o ReprPairs(kv, i + 1)

\* str(v): the text itself, and the repr of every other value
StrOf(v) == IF IsStr(v) THEN v.s ELSE Repr(v)

QuoteHome(odds) ==
    FirstTruthy(odds, <<K_home_team, K_homeTeam, K_home, K_team1>>, JStr(<<>>))
QuoteAway(odds) ==
    FirstTruthy(odds, <<K_away_team, K_awayTeam, K_away, K_team2>>, JStr(<<>>))

\* _filter_odds_by_entities: without entity teams every dict quote, else the
\* dict quotes whose home or away team holds an entity team, case-insensitively
FilterOddsByEntities(odds_data, entities) ==
    LET in_either(team_lower, home_team_lower, away_team_lower) ==
            Contains(home_team_lower, team_lower) \/ Contains(away_team_lower, team_lower)
        match_found(teams, home_team_lower, away_team_lower) ==
            \E i \in 1..Len(teams) :
                in_either(Lower(teams[i].s), home_team_lower, away_team_lower)
    IN  IF ~Truthy(odds_data) \/ ~IsList(odds_data) THEN <<>>
        ELSE SelectSeq(odds_data.xs, LAMBDA odds :
                /\ IsDict(odds)
                /\ \/ ~Truthy(Get(entities, K_teams))
                   \/ match_found(Get(entities, K_teams).xs, Lower(StrOf(QuoteHome(odds))),
                                  Lower(StrOf(QuoteAway(odds)))))

\* the normalized entity teams of the retry
NormalizedTeams(entities) ==
    [i \in 1..Len(Get(entities, K_teams).xs) |-> NormalizeTeamName(Get(entities, K_teams).xs[i].s)]

HasText(o, key) == IsDict(o) /\ Has(o, key) /\ IsStr(Item(o, key))

\* the retry's test of one quote: any(team in o["home_team"].lower() or
\* team in o["away_team"].lower() for team in normalized_teams)
RetryMatches(o, teams) ==
    \E i \in 1..Len(teams) :
        \/ Contains(Lower(Item(o, K_home_team).s), teams[i])
        \/ HasText(o, K_away_team) /\ Contains(Lower(Item(o, K_away_team).s), teams[i])

\* the exception of the retry's test of one quote, "" when it raises none:
\* o["home_team"] raises TypeError on a quote that is no object and KeyError
\* on a missing key, .lower() raises AttributeError on a value that is no
\* text; the away team is read only when the first team is not in the home
\* team
RetryError(o, teams) ==
    IF ~IsDict(o) THEN "TypeError"
    ELSE IF ~Has(o, K_home_team) THEN "KeyError"
    ELSE IF ~IsStr(Item(o, K_home_team)) THEN "AttributeError"
    ELSE IF Contains(Lower(Item(o, K_home_team).s), teams[1]) THEN ""
    ELSE IF ~Has(o, K_away_team) THEN "KeyError"
    ELSE IF ~IsStr(Item(o, K_away_team)) THEN "AttributeError"
    ELSE ""

RetryRaises(o, teams) == RetryError(o, teams) # ""

\* a selection rule that tests the away cues before the draw cues
DetermineBetSelectionAwayFirst(entities, odds_data) ==
    IF ~Truthy(odds_data) \/ ~IsDict(odds_data) THEN K_home_win
    ELSE IF ~Truthy(Get(entities, K_bet_types)) THEN K_home_win
    ELSE LET selects(bet_type) ==
                 IF Contains(bet_type, Str(<<"a","w","a","y">>))
                        \/ Contains(bet_type, Str(<<"v","i","s","i","t","a","n","t","e">>))
                 THEN K_away_win
                 ELSE IF Contains(bet_type, Str(<<"d","r","a","w">>))
                            \/ Contains(bet_type, Str(<<"e","m","p","a","t","e">>))
                 THEN K_draw
                 ELSE K_home_win
         IN  selects(Lower(Item(entities, K_bet_types).xs[1].s))

\* _determine_bet_selection
DetermineBetSelection(entities, odds_data) ==
    IF ~Truthy(odds_data) \/ ~IsDict(odds_data) THEN K_home_win
    ELSE IF ~Truthy(Get(entities, K_bet_types)) THEN K_home_win
    ELSE LET selects(bet_type) ==
                 IF Contains(bet_type, Str(<<"d","r","a","w">>))
                        \/ Contains(bet_type, Str(<<"e","m","p","a","t","e">>))
                 THEN K_draw
                 ELSE IF Contains(bet_type, Str(<<"a","w","a","y">>))
                            \/ Contains(bet_type, Str(<<"v","i","s","i","t","a","n","t","e">>))
                 THEN K_away_win
                 ELSE K_home_win
         IN  selects(Lower(Item(entities, K_bet_types).xs[1].s))

\* winnings that leave the price out
TimesOne(stake, price) == JDec(stake.n * 100)

\* stake * price in hundredths, for an integer stake and a price that is a
\* decimal (JDec, hundredths), an integer (JNum) or a boolean (True is 1 and
\* False is 0)
Times(stake, price) ==
    IF price.t = "dec" THEN JDec(stake.n * price.h)
    ELSE IF price.t = "bool" THEN JDec(stake.n * (IF price.b THEN 1 ELSE 0) * 100)
    ELSE JDec(stake.n * price.n * 100)

\* the values a float can be multiplied by: int, float and bool
IsNumber(v) == v.t \in {"num", "dec", "bool"}

\* the pending bet stored for a quote
MakePendingBet(quote, selection, stake, potential_winnings) ==
    JDict(<< <<K_fixture_id, Item(quote, K_id)>>,
             <<K_market_type, JStr(Str(<<"m","o","n","e","y","l","i","n","e">>))>>,
             <<K_selection, JStr(selection)>>,
             <<K_stake, stake>>,
             <<K_potential_winnings, potential_winnings>> >>)

\* the partial-match retry of process_betting_query over the normalized entity
\* teams: the quotes that match, or the exception of the first quote whose
\* test raises
RetryFilter(odds_data, teams) ==
    IF \E i \in 1..Len(odds_data.xs) : RetryRaises(odds_data.xs[i], teams)
    THEN Raise(RetryError(odds_data.xs[CHOOSE i \in 1..Len(odds_data.xs) :
                              /\ RetryRaises(odds_data.xs[i], teams)
                              /\ \A j \in 1..(i - 1) : ~RetryRaises(odds_data.xs[j], teams)],
                          teams))
    ELSE Return(SelectSeq(odds_data.xs, LAMBDA o : RetryMatches(o, teams)))

\* the quotes process_betting_query goes on with: those of
\* _filter_odds_by_entities, and those of the retry when there are none and the
\* entities name teams
FilteredOdds(odds_data, entities) ==
    LET retried(filtered_odds) ==
            IF filtered_odds = <<>> /\ Truthy(Get(entities, K_teams))
            THEN RetryFilter(odds_data, NormalizedTeams(entities))
            ELSE Return(filtered_odds)
    IN  retried(FilterOddsByEntities(odds_data, entities))

(* process_betting_query from the point where get_relevant_data has answered *)
(* (relevant is its outcome): the outcome of the call, the contexts it       *)
(* leaves and the quote it matched (None when it matched none).              *)
ProcessBettingQuery(cs, session_id, stake, entities, relevant) ==
    LET none(out) == [out |-> out, contexts |-> cs, quote |-> JNull]
        on(quote, out) == [out |-> out, contexts |-> cs, quote |-> quote]
        stores(quote, selection, potential_winnings) ==
            [out |-> Return(ProposalResponse(quote, selection, stake, potential_winnings)),
             contexts |-> UpdateContext(cs, session_id, "pending_bet",
                              MakePendingBet(quote, selection, stake, potential_winnings)),
             quote |-> quote]
        priced(quote, selection, price) ==
            IF ~IsNumber(price) THEN on(quote, Raise("TypeError"))
            ELSE IF ~Has(quote, K_home_team) \/ ~Has(quote, K_away_team)
            THEN on(quote, Raise("KeyError"))
            ELSE IF ~Has(quote, K_id) THEN on(quote, Raise("KeyError"))
            ELSE stores(quote, selection, Times(stake, price))
        proposes(quote, selection) ==
            IF ~Truthy(stake) THEN on(quote, Return(NeedStakeResponse))
            ELSE IF ~Has(quote, K_odds) THEN on(quote, Raise("KeyError"))
            ELSE IF ~IsDict(Item(quote, K_odds)) THEN on(quote, Raise("AttributeError"))
            ELSE priced(quote, selection,
                        IF Has(Item(quote, K_odds), selection)
                        THEN Item(Item(quote, K_odds), selection) ELSE JNum(1))
        answers(filtered_odds) ==
            IF filtered_odds.raised THEN none(filtered_odds)
            ELSE IF filtered_odds.val = <<>> THEN none(Return(NoOddsResponse))
            ELSE proposes(filtered_odds.val[1],
                          DetermineBetSelection(entities, filtered_odds.val[1]))
    IN  IF relevant.raised THEN none(relevant)
        ELSE answers(FilteredOdds(Get(relevant.val, K_odds), entities))

----------------------------------------------------------------------------
(* SportsBettingChatbot.confirm_bet *)

\* the arguments confirm_bet passes to api_client.place_bet
PlaceBetArgs(pending_bet) ==
    [fixture_id |-> Item(pending_bet, K_fixture_id), market_type |-> Item(pending_bet, K_market_type),
     selection |-> Item(pending_bet, K_selection), stake |-> Item(pending_bet, K_stake)]

(* The simulated bet placement.  src/app/api_client.py defines no place_bet: *)
(* on that client the attribute lookup of confirm_bet raises AttributeError  *)
(* before any call is made (place_bet_bound = FALSE).  Where a placement     *)
(* collaborator is bound, its answers are those of its interface: an object  *)
(* {success, bet_id, status}, absence, or a failure of the call.             *)
PlaceBetAnswers ==
    { Return(JDict(<< <<K_success, JBool(TRUE)>>, <<K_bet_id, JStr(Str(<<"S","I","M","-","7">>))>>,
                      <<K_status, JStr(Str(<<"a","c","c","e","p","t","e","d">>))>> >>)),
      Return(JDict(<< <<K_success, JBool(FALSE)>> >>)),
      Return(JNull),
      Raise("PlacementError") }

\* confirm_bet from the point where place_bet has answered: the outcome of
\* the call and the contexts it leaves
ConfirmBet(cs, session_id, pending_bet, answer) ==
    IF answer.raised THEN [out |-> answer, contexts |-> cs]
    ELSE [out |-> Return(IF Truthy(answer.val) /\ Truthy(Get(answer.val, K_success))
                         THEN ConfirmedResponse(pending_bet, answer.val)
                         ELSE PlacementFailedResponse),
          contexts |-> UpdateContext(cs, session_id, "pending_bet", JNull)]

----------------------------------------------------------------------------
(* SportsBettingChatbot.process_query *)

ConfirmationKeywords ==
    <<Str(<<"s",iAcute>>), Str(<<"s","i">>), Str(<<"c","o","n","f","i","r","m","a","r">>), Str(<<"s",iAcute," ","c","o","n","f","i","r","m","a","r">>)>>

\* query.lower() in ['si', ...] (with and without the accent)
IsConfirmation(query) == InList(Lower(query), ConfirmationKeywords)

\* _determine_sport_type iterates entities.get("tournaments", []): a value
\* that is present and cannot be iterated raises
SportTypeRaises(entities) ==
    Has(entities, K_tournaments) /\ Item(entities, K_tournaments).t \in {"null", "num", "dec", "bool"}

\* _generate_resolutive_fallback
GenerateResolutiveFallback(query, entities) ==
    IF Get(entities, K_question_type) = JStr(AnalisisYRecomendacion) THEN AnalysisResponse(entities)
    ELSE IF Get(entities, K_question_type) = JStr(Estadisticas) THEN StatsResponse(entities)
    ELSE GeneralResponse(entities, query)

(* What the Gemini call of _generate_response_with_llm can yield: its text,  *)
(* or an exception (always so when the model is not loaded: None has no      *)
(* generate_content).                                                        *)
LlmAnswers == { [kind |-> "text"], [kind |-> "raise"] }

\* a synthesis without the try/except around its model call
GenerateResponseWithLlmUncaught(query, entities, loaded, llm) ==
    IF SportTypeRaises(entities) THEN Raise("TypeError")
    ELSE IF loaded /\ llm.kind = "text" THEN Return(LlmResponse)
    ELSE Raise("Exception")

\* _generate_response_with_llm
GenerateResponseWithLlm(query, entities, loaded, llm) ==
    IF SportTypeRaises(entities) THEN Raise("TypeError")
    ELSE IF loaded /\ llm.kind = "text" THEN Return(LlmResponse)
    ELSE Return(GenerateResolutiveFallback(query, entities))

\* an update that writes the teams whether or not any were extracted
UpdateContextAfterAlways(cs, session_id, entities) ==
    UpdateContext(cs, session_id, "last_mentioned_teams", Get(entities, K_teams))

\* _update_context
UpdateContextAfter(cs, session_id, entities) ==
    LET c1 == IF Truthy(Get(entities, K_teams))
              THEN UpdateContext(cs, session_id, "last_mentioned_teams", Item(entities, K_teams))
              ELSE cs
        c2 == IF Truthy(Get(entities, K_tournaments))
              THEN UpdateContext(c1, session_id, "last_mentioned_tournament",
                       Item(entities, K_tournaments).xs[1])
              ELSE c1
    IN  IF Truthy(Get(entities, K_bet_types))
        THEN UpdateContext(c2, session_id, "preferred_bet_types", Item(entities, K_bet_types))
        ELSE c2

\* the no-data test of process_query ("sports" is never set by get_relevant_data)
NoData(relevant_data) ==
    /\ ~Truthy(Get(relevant_data, K_fixtures))
    /\ ~Truthy(Get(relevant_data, K_odds))
    /\ ~Truthy(Get(relevant_data, K_sports))

\* process_query from the point where get_relevant_data has answered, up to
\* its return statement, outside the try
ProcessQueryData(cs, session_id, query, entities, relevant, loaded, llm) ==
    LET response == GenerateResponseWithLlm(query, entities, loaded, llm)
    IN  IF relevant.raised THEN [out |-> relevant, contexts |-> cs]
        ELSE IF NoData(relevant.val) THEN [out |-> Return(NoDataResponse(entities)), contexts |-> cs]
        ELSE IF response.raised THEN [out |-> response, contexts |-> cs]
        ELSE [out |-> response, contexts |-> UpdateContextAfter(cs, session_id, entities)]

\* a non-sports test that never answers yes
IsNonSportsNever(entities) == FALSE

\* the non-sports test of process_query, made before any dispatch
IsNonSports(entities) == Get(entities, K_question_type) = JStr(NonSports)

\* process_query without its try/except
Uncaught(r) == r

\* the try/except of process_query: whatever its body raises becomes the
\* fixed text of _generate_error_response
Catch(r) == IF r.out.raised THEN [r EXCEPT !.out = Return(ErrorResponse)] ELSE r

----------------------------------------------------------------------------
(* The sessions, queries and collaborator answers the model draws from *)

Sessions == {"s1", "s2"}

QuerySi == Str(<<"s",iAcute>>)
QueryBet50 == Str(<<"A","p","u","e","s","t","a"," ","$","5","0"," ","a"," ","B","a","r","c","e","l","o","n","a">>)
QueryBet20 == Str(<<"2","0"," ","e","u","r","o","s"," ","a"," ","t","h","e"," ","r","e","d","s">>)
QueryNoStake == Str(<<"a","p","u","e","s","t","a"," ","a","l"," ","b","a","r",cCedilla,"a">>)
QueryNonSports == Str(<<"q","u",eAcute," ","t","i","e","m","p","o"," ","h","a","c","e">>)

\* the queries sent to process_query
Queries == {QuerySi, QueryBet50, QueryNonSports}

\* the queries sent to process_betting_query
BetQueries == {QueryBet50, QueryBet20, QueryNoStake}

\* entities as the Gemini extractor may return them
ModelEntitiesDraw ==
    JDict(<< <<K_teams, JList(<<JStr(Str(<<"B","a","r",cCedilla,"a">>))>>)>>,
             <<K_tournaments, JList(<<JStr(Str(<<"l","a"," ","l","i","g","a">>))>>)>>,
             <<K_dates, JList(<<>>)>>,
             <<K_bet_types, JList(<<JStr(Str(<<"e","m","p","a","t","e">>))>>)>>,
             <<K_question_type, JStr(Str(<<"A","n",aAcute,"l","i","s","i","s"," ","y"," ","R","e","c","o","m","e","n","d","a","c","i",oAcute,"n">>))>> >>)

\* entities with a null where the list of tournaments should be
ModelEntitiesNull ==
    JDict(<< <<K_teams, JList(<<>>)>>, <<K_tournaments, JNull>>, <<K_dates, JList(<<>>)>>,
             <<K_bet_types, JList(<<>>)>>,
             <<K_question_type, JStr(InformacionGeneral)>> >>)

\* what the Gemini call of the extractor answers
ModelAnswers ==
    { ModelRaises, ModelJson(ModelEntitiesDraw), ModelJson(ModelEntitiesNull),
      ModelJson(JList(<<>>)) }

\* what the fixtures request and the odds request meet
FixtureAnswers ==
    { [kind |-> "timeout"], Json(JList(<<>>)), Json(JList(<<UpFixtureOdd>>)) }
OddsAnswers ==
    { [kind |-> "timeout"], [kind |-> "non_json"], Json(JList(<<>>)),
      Json(JList(<<UpQuoteA, UpQuoteB>>)), Json(JList(<<UpQuoteFlat>>)) }

\* a pending bet as a caller of update_context may store it
DirectBet ==
    JDict(<< <<K_fixture_id, JNum(2)>>,
             <<K_market_type, JStr(Str(<<"m","o","n","e","y","l","i","n","e">>))>>,
             <<K_selection, JStr(K_draw)>>,
             <<K_stake, JNum(10)>>,
             <<K_potential_winnings, JDec(3200)>> >>)

\* the <<key, value>> pairs given to update_context by callers other than the
\* handlers: a pending bet and its cancellation
Updates ==
    { <<"pending_bet", DirectBet>>, <<"pending_bet", JNull>> }

\* such pairs for a key no handler writes
RaceUpdates ==
    { <<"pending_bet", DirectBet>>, <<"language", JStr(Str(<<"e","s">>))>> }

(* The pure parts of the handlers over these inputs, computed once. *)

\* extract_entities_enhanced(query): the outcomes a call can have, one for
\* every environment of the date extraction
Extracted ==
    [query \in Queries \cup BetQueries |->
        LET envs == EnvsFor(query)
        IN  [loaded \in BOOLEAN |-> [m \in ModelAnswers |->
                { ExtractEntitiesEnhanced(query, loaded, m, env) : env \in envs }]]]

\* the entities a caller passes to process_betting_query with a query: those
\* extract_entities_enhanced gives without the model
BetEntities(query) == { x.val : x \in Extracted[query][FALSE][ModelRaises] }

\* the stake process_betting_query parses from a query
Stakes == [query \in BetQueries |-> ParseStake(query)]

\* the entities a request can hold
TaskEntities ==
    { x.val : x \in { y \in UNION { Extracted[q][l][m] : q \in Queries \cup BetQueries,
                                                          l \in BOOLEAN, m \in ModelAnswers } :
                      ~y.raised } }

\* get_relevant_data(entities) up to its odds request
Fixtures ==
    [entities \in TaskEntities |-> [rf \in FixtureAnswers |->
        RelevantFixtures(entities, GetFixtures(rf))]]

\* the queries that are confirmation keywords
Confirming == { query \in Queries : IsConfirmation(query) }

\* a short-circuit that does not look at the pending bet
ConfirmsAlways(query, pending_bet) == query \in Confirming

\* the confirmation short-circuit of process_query: a confirmation keyword
\* on a session that holds a pending bet
ConfirmsPending(query, pending_bet) == query \in Confirming /\ Truthy(pending_bet)

\* one session on its own
RaceSessions == {"s1"}

\* the largest number of requests in flight together
MaxTasks == 2

----------------------------------------------------------------------------
(* The state machine.  A request runs from its call to its first await of    *)
(* the network in one step, and from the answer of an await to its next      *)
(* await or to its return in one step: asyncio switches tasks at awaits      *)
(* only.  get_relevant_data awaits the fixtures request and then the odds    *)
(* request, and make_request awaits session.get, then response.json() and,   *)
(* when that raises, response.text(): a request in flight is suspended at    *)
(* one of these (at, stage) and holds the fixtures it has got so far.        *)
(* `last` is overwritten by every step with what the step did.  A request    *)
(* is called whatever the other requests are doing: the server awaits        *)
(* process_query once per HTTP request (src/app/main.py:38-43) and the       *)
(* engine takes no lock, so that the requests of one session and of several  *)
(* sessions overlap at their awaits, and update_context, get_context and     *)
(* clear_context are plain methods that run between any two steps.  An       *)
(* action that starts a request takes `room`, the bound on the number of     *)
(* requests in flight together.                                              *)

Task(op, at, session_id, query, entities, stake, bet) ==
    [op |-> op, at |-> at, stage |-> "get", session_id |-> session_id, query |-> query,
     entities |-> entities, fixtures |-> JNull, stake |-> stake, bet |-> bet]

Remove(seq, i) == SubSeq(seq, 1, i - 1) \o SubSeq(seq, i + 1, Len(seq))

\* a place_bet call as the collaborator sees it
PlaceBetCall(session_id, pending_bet) ==
    [session_id |-> session_id, args |-> PlaceBetArgs(pending_bet)]

\* a request reached an await; call is the place_bet call it made, if any
Started(op, at, session_id, call) ==
    [op |-> op, step |-> "await", at |-> at, session_id |-> session_id, call |-> call]

Init ==
    /\ contexts = EmptyDict
    /\ tasks = <<>>
    /\ last = [op |-> "init", step |-> "done"]
    /\ model_loaded \in BOOLEAN
    /\ place_bet_bound \in BOOLEAN

\* the request tasks[i] of process_query returns with the outcome r0 of its
\* body: whatever the body raised becomes the fixed text
ProcessQueryReturns(i, relevant, r0) ==
    \E t \in {tasks[i]}, r \in {Catch(r0)} :
        /\ contexts' = r.contexts
        /\ tasks' = Remove(tasks, i)
        /\ last' = [op |-> "process_query", step |-> "done", session_id |-> t.session_id,
                    query |-> t.query,
                    path |-> IF relevant.raised THEN "reconcile"
                             ELSE IF NoData(relevant.val) THEN "no_data" ELSE "synthesis",
                    raised |-> r0.out.raised,
                    odds |-> IF relevant.raised THEN JNull ELSE Get(relevant.val, K_odds),
                    out |-> r.out, before |-> PendingBet(contexts, t.session_id),
                    bet |-> JNull, calls |-> 0]

\* the request tasks[i] of process_betting_query returns: the proposal is
\* stored, or a guidance text returned, or the exception left to the caller
ProcessBettingQueryReturns(i, relevant) ==
    \E t \in {tasks[i]} :
      \E r \in {ProcessBettingQuery(contexts, t.session_id, t.stake, t.entities, relevant)} :
        /\ contexts' = r.contexts
        /\ tasks' = Remove(tasks, i)
        /\ last' = [op |-> "process_betting_query", step |-> "done",
                    session_id |-> t.session_id, query |-> t.query, entities |-> t.entities,
                    stake |-> t.stake, relevant |-> relevant, quote |-> r.quote,
                    out |-> r.out, before |-> PendingBet(contexts, t.session_id)]

\* process_query is called: the confirmation short-circuit, else extraction,
\* the non-sports reply and the filters of the fixtures request, up to the
\* first await
ProcessQueryCalled(In, room) ==
    \E session_id \in In.sessions, query \in In.queries,
       m \in (IF model_loaded THEN In.model ELSE {ModelRaises}) :
      \E extracted \in Extracted[query][model_loaded][m] :
        LET pending_bet == PendingBet(contexts, session_id)
            returns(path, out) ==
                /\ last' = [op |-> "process_query", step |-> "done",
                            session_id |-> session_id, query |-> query, path |-> path,
                            raised |-> out.raised, odds |-> JNull,
                            out |-> Catch([out |-> out, contexts |-> contexts]).out,
                            before |-> pending_bet, bet |-> JNull, calls |-> 0]
                /\ UNCHANGED <<contexts, tasks>>
            awaits(at, entities, bet, call) ==
                /\ tasks' = Append(tasks, Task("process_query", at, session_id, query,
                                               entities, JNull, bet))
                /\ last' = Started("process_query", at, session_id, call)
                /\ UNCHANGED contexts
        IN  /\ room
            /\ IF ConfirmsPending(query, pending_bet)
               THEN IF ~Truthy(pending_bet)
                    THEN returns("confirm", Return(NoPendingResponse))
                    ELSE IF place_bet_bound
                    THEN awaits("place_bet", JNull, pending_bet,
                                PlaceBetCall(session_id, pending_bet))
                    ELSE returns("confirm", Raise("AttributeError"))
               ELSE IF extracted.raised THEN returns("extract", extracted)
               ELSE IF IsNonSports(extracted.val)
               THEN returns("non_sports", Return(NonSportsResponse))
               ELSE \E filters \in {RequestFilters(extracted.val)} :
                        IF filters.raised THEN returns("reconcile", filters)
                        ELSE awaits("get_fixtures", extracted.val, JNull, JNull)
            /\ UNCHANGED <<model_loaded, place_bet_bound>>

\* process_betting_query is called: the stake is parsed and get_relevant_data
\* runs up to its fixtures request
ProcessBettingQueryCalled(In, room) ==
    \E session_id \in In.sessions, query \in In.bet_queries :
      \E entities \in BetEntities(query) :
        /\ room
        /\ \E filters \in {RequestFilters(entities)}, stake \in {Stakes[query]} :
             IF filters.raised
             THEN /\ last' = [op |-> "process_betting_query", step |-> "done",
                              session_id |-> session_id, query |-> query,
                              entities |-> entities, stake |-> stake,
                              relevant |-> filters, quote |-> JNull,
                              out |-> filters, before |-> PendingBet(contexts, session_id)]
                  /\ UNCHANGED tasks
             ELSE /\ tasks' = Append(tasks, Task("process_betting_query", "get_fixtures",
                                                 session_id, query, entities, stake, JNull))
                  /\ last' = Started("process_betting_query", "get_fixtures", session_id,
                                     JNull)
        /\ UNCHANGED <<contexts, model_loaded, place_bet_bound>>

\* what the request a data task waits for can meet
AnswersAt(In, at) == IF at = "get_fixtures" THEN In.fixtures ELSE In.odds

\* tasks[i] moves on to the next await of the same make_request
Resumes(i, stage) ==
    /\ tasks' = [tasks EXCEPT ![i].stage = stage]
    /\ last' = Started(tasks[i].op, tasks[i].at, tasks[i].session_id, JNull)
    /\ UNCHANGED <<contexts, model_loaded, place_bet_bound>>

\* session.get answers a request with a 200 response: make_request awaits
\* response.json()
ResponseReceived(In) ==
    \E i \in 1..Len(tasks) :
        /\ tasks[i].at \in {"get_fixtures", "get_odds"} /\ tasks[i].stage = "get"
        /\ \E r \in AnswersAt(In, tasks[i].at) : EndsAt(r) # "get"
        /\ Resumes(i, "json")

\* response.json() raises: make_request awaits response.text()
BodyRejected(In) ==
    \E i \in 1..Len(tasks) :
        /\ tasks[i].at \in {"get_fixtures", "get_odds"} /\ tasks[i].stage = "json"
        /\ \E r \in AnswersAt(In, tasks[i].at) : EndsAt(r) = "text"
        /\ Resumes(i, "text")

\* the fixtures request of a get_relevant_data ends: the team filter, and the
\* odds request is made; an exception of the filter ends the request
FixturesAnswered(In) ==
    \E i \in 1..Len(tasks), rf \in In.fixtures :
      \E t \in {tasks[i]} :
        /\ t.at = "get_fixtures" /\ t.stage = EndsAt(rf)
        /\ \E fixtures \in {Fixtures[t.entities][rf]} :
              IF ~fixtures.raised
              THEN /\ tasks' = [tasks EXCEPT ![i].at = "get_odds", ![i].stage = "get",
                                             ![i].fixtures = fixtures.val]
                   /\ last' = Started(t.op, "get_odds", t.session_id, JNull)
                   /\ UNCHANGED contexts
              ELSE IF t.op = "process_query"
              THEN ProcessQueryReturns(i, fixtures, [out |-> fixtures, contexts |-> contexts])
              ELSE ProcessBettingQueryReturns(i, fixtures)
        /\ UNCHANGED <<model_loaded, place_bet_bound>>

\* the odds request of a process_query ends: get_relevant_data returns, and
\* the turn goes on to its return
ProcessQueryAnswered(In) ==
    \E i \in 1..Len(tasks), ro \in In.odds, llm \in LlmAnswers :
      \E t \in {tasks[i]} :
        /\ t.op = "process_query" /\ t.at = "get_odds" /\ t.stage = EndsAt(ro)
        /\ \E relevant \in {Return(RelevantData(t.fixtures, GetOdds(ro)))} :
              ProcessQueryReturns(i, relevant,
                  ProcessQueryData(contexts, t.session_id, t.query, t.entities, relevant,
                                   model_loaded, llm))
        /\ UNCHANGED <<model_loaded, place_bet_bound>>

\* the odds request of a process_betting_query ends: get_relevant_data
\* returns, and the call goes on to its return
ProcessBettingQueryAnswered(In) ==
    \E i \in 1..Len(tasks), ro \in In.odds :
        LET t == tasks[i]
        IN  /\ t.op = "process_betting_query" /\ t.at = "get_odds" /\ t.stage = EndsAt(ro)
            /\ ProcessBettingQueryReturns(i, Return(RelevantData(t.fixtures, GetOdds(ro))))
            /\ UNCHANGED <<model_loaded, place_bet_bound>>

\* confirm_bet is called by a caller other than process_query
ConfirmBetCalled(In, room) ==
    \E session_id \in In.sessions :
        LET pending_bet == PendingBet(contexts, session_id)
            returns(out) ==
                /\ last' = [op |-> "confirm_bet", step |-> "done", session_id |-> session_id,
                            query |-> <<>>, path |-> "confirm", raised |-> out.raised,
                            odds |-> JNull, out |-> out,
                            before |-> pending_bet, bet |-> pending_bet, calls |-> 0]
                /\ UNCHANGED <<contexts, tasks>>
        IN  /\ room
            /\ IF ~Truthy(pending_bet) THEN returns(Return(NoPendingResponse))
               ELSE IF ~place_bet_bound THEN returns(Raise("AttributeError"))
               ELSE /\ tasks' = Append(tasks, Task("confirm_bet", "place_bet", session_id,
                                                   <<>>, JNull, JNull, pending_bet))
                    /\ last' = Started("confirm_bet", "place_bet", session_id,
                                       PlaceBetCall(session_id, pending_bet))
                    /\ UNCHANGED contexts
            /\ UNCHANGED <<model_loaded, place_bet_bound>>

\* place_bet answers a confirm_bet: the reply is built and the pending bet
\* cleared; under process_query an exception becomes the error text
PlaceBetAnswered ==
    \E i \in 1..Len(tasks), answer \in PlaceBetAnswers :
        LET t == tasks[i]
            r0 == ConfirmBet(contexts, t.session_id, t.bet, answer)
            r == IF t.op = "process_query" THEN Catch(r0) ELSE r0
        IN  /\ t.at = "place_bet"
            /\ contexts' = r.contexts
            /\ tasks' = Remove(tasks, i)
            /\ last' = [op |-> t.op, step |-> "done", session_id |-> t.session_id,
                        query |-> t.query, path |-> "confirm", raised |-> r0.out.raised,
                        odds |-> JNull, out |-> r.out,
                        before |-> PendingBet(contexts, t.session_id), bet |-> t.bet,
                        calls |-> 1, answer |-> answer]
            /\ UNCHANGED <<model_loaded, place_bet_bound>>

\* get_context is called: contexts.get(session_id, {}) reads the store and,
\* unlike contexts[session_id] on the defaultdict, adds no entry to it
GetContextCalled(In) ==
    \E session_id \in In.sessions :
        /\ last' = [op |-> "get_context", step |-> "done", session_id |-> session_id,
                    result |-> GetContext(contexts, session_id)]
        /\ UNCHANGED <<contexts, tasks, model_loaded, place_bet_bound>>

\* clear_context is called
ClearContextCalled(In) ==
    \E session_id \in In.sessions :
        /\ contexts' = ClearContext(contexts, session_id)
        /\ last' = [op |-> "clear_context", step |-> "done", session_id |-> session_id]
        /\ UNCHANGED <<tasks, model_loaded, place_bet_bound>>

\* update_context is called by a caller other than the handlers, between any
\* two steps of the requests in flight
UpdateContextCalled(In) ==
    \E session_id \in In.sessions, update \in In.updates :
        /\ contexts' = UpdateContext(contexts, session_id, update[1], update[2])
        /\ last' = [op |-> "update_context", step |-> "done", session_id |-> session_id,
                    key |-> update[1], value |-> update[2]]
        /\ UNCHANGED <<tasks, model_loaded, place_bet_bound>>

\* fewer than MaxTasks requests are in flight
Room == Len(tasks) < MaxTasks

\* an upstream that times out
TimesOut == { [kind |-> "timeout"] }

\* an odds request that is answered with a body that is no JSON or with two
\* quotes
OddsBodies == { [kind |-> "non_json"], Json(JList(<<UpQuoteA, UpQuoteB>>)) }

\* what the two sessions of the engine draw from: a confirmation keyword and
\* a betting query, a Gemini extractor that names a team, a tournament and a
\* bet type (the fallback runs where the model is absent), the fixtures
\* request timing out, and a caller that stores a pending bet
Inputs ==
    [sessions |-> Sessions, queries |-> {QuerySi},
     bet_queries |-> {QueryBet50},
     model |-> {ModelJson(ModelEntitiesDraw)}, fixtures |-> TimesOut,
     odds |-> TimesOut \cup OddsBodies,
     updates |-> { <<"pending_bet", DirectBet>> }]

\* two sessions: their requests overlap at their network calls, and the
\* calls of the context store fall between any two of their steps
Next ==
    \/ ProcessQueryCalled(Inputs, Room)
    \/ ProcessBettingQueryCalled(Inputs, Room)
    \/ ResponseReceived(Inputs)
    \/ BodyRejected(Inputs)
    \/ FixturesAnswered(Inputs)
    \/ ProcessQueryAnswered(Inputs)
    \/ ProcessBettingQueryAnswered(Inputs)
    \/ ConfirmBetCalled(Inputs, Room)
    \/ PlaceBetAnswered
    \/ GetContextCalled(Inputs)
    \/ UpdateContextCalled(Inputs)
    \/ ClearContextCalled(Inputs)

Spec == Init /\ [][Next]_vars

\* what the confirmations of one session draw from: a confirmation keyword
\* and two betting queries, the Gemini extractor failing, the fixtures request
\* timing out, and a caller that stores a pending bet or a key no handler
\* writes
RaceInputs ==
    [sessions |-> RaceSessions, queries |-> {QuerySi},
     bet_queries |-> {QueryBet50, QueryBet20},
     model |-> {ModelRaises}, fixtures |-> TimesOut,
     odds |-> TimesOut \cup OddsBodies,
     updates |-> RaceUpdates]

\* one session, its confirmations and proposals overlapping
NextRace ==
    \/ ProcessQueryCalled(RaceInputs, Room)
    \/ ProcessBettingQueryCalled(RaceInputs, Room)
    \/ ResponseReceived(RaceInputs)
    \/ BodyRejected(RaceInputs)
    \/ FixturesAnswered(RaceInputs)
    \/ ProcessQueryAnswered(RaceInputs)
    \/ ProcessBettingQueryAnswered(RaceInputs)
    \/ ConfirmBetCalled(RaceInputs, Room)
    \/ PlaceBetAnswered
    \/ GetContextCalled(RaceInputs)
    \/ UpdateContextCalled(RaceInputs)
    \/ ClearContextCalled(RaceInputs)

SpecRace == Init /\ [][NextRace]_vars

\* what the proposals of one session draw from: the three betting queries,
\* every answer of the fixtures and of the odds request, and a caller that
\* stores a pending bet or cancels it
BetInputs ==
    [sessions |-> RaceSessions, queries |-> {QuerySi},
     bet_queries |-> BetQueries,
     model |-> {ModelRaises}, fixtures |-> FixtureAnswers, odds |-> OddsAnswers,
     updates |-> Updates]

\* one session, its proposals overlapping
NextBet ==
    \/ ProcessQueryCalled(BetInputs, Room)
    \/ ProcessBettingQueryCalled(BetInputs, Room)
    \/ ResponseReceived(BetInputs)
    \/ BodyRejected(BetInputs)
    \/ FixturesAnswered(BetInputs)
    \/ ProcessQueryAnswered(BetInputs)
    \/ ProcessBettingQueryAnswered(BetInputs)
    \/ ConfirmBetCalled(BetInputs, Room)
    \/ PlaceBetAnswered
    \/ GetContextCalled(BetInputs)
    \/ UpdateContextCalled(BetInputs)
    \/ ClearContextCalled(BetInputs)

SpecBet == Init /\ [][NextBet]_vars

\* what the turns of one session draw from: the three queries, every answer
\* of the Gemini extractor and of the fixtures request, and a caller that
\* stores a pending bet
TurnInputs ==
    [sessions |-> RaceSessions, queries |-> Queries,
     bet_queries |-> {QueryBet50},
     model |-> ModelAnswers, fixtures |-> FixtureAnswers, odds |-> OddsBodies,
     updates |-> { <<"pending_bet", DirectBet>> }]

\* one session, its turns overlapping
NextTurn ==
    \/ ProcessQueryCalled(TurnInputs, Room)
    \/ ProcessBettingQueryCalled(TurnInputs, Room)
    \/ ResponseReceived(TurnInputs)
    \/ BodyRejected(TurnInputs)
    \/ FixturesAnswered(TurnInputs)
    \/ ProcessQueryAnswered(TurnInputs)
    \/ ProcessBettingQueryAnswered(TurnInputs)
    \/ ConfirmBetCalled(TurnInputs, Room)
    \/ PlaceBetAnswered
    \/ GetContextCalled(TurnInputs)
    \/ UpdateContextCalled(TurnInputs)
    \/ ClearContextCalled(TurnInputs)

SpecTurn == Init /\ [][NextTurn]_vars

----------------------------------------------------------------------------
(* The data client and the reconciler on their own: one call, drawn with the *)
(* answers its requests meet, suspended at each await of make_request it     *)
(* reaches, and then its return.                                             *)

\* values of the dates field that are no list of texts: the model's JSON is
\* passed on as it is, and no normalization pass reads its dates
OddDates ==
    { JNum(5), JBool(TRUE), JBool(FALSE), JStr(Hoy),
      JDict(<< <<K_from, JStr(Str(<<"2","0","2","4","-","0","3","-","2","0">>))>> >>) }

\* entities of the model with such dates
ModelEntitiesDates(dates) ==
    JDict(<< <<K_teams, JList(<<JStr(Str(<<"R","i","v","e","r">>))>>)>>, <<K_tournaments, JList(<<>>)>>,
             <<K_dates, dates>>, <<K_bet_types, JList(<<>>)>>,
             <<K_question_type, JStr(InformacionGeneral)>> >>)

DateAnswers == { ModelJson(ModelEntitiesDates(dates)) : dates \in OddDates }

\* the entities given to get_relevant_data: those of a request, and what the
\* extractor returns for the model's answers with such dates
RelEntities ==
    TaskEntities
        \cup { ExtractEntitiesEnhanced(QueryBet50, TRUE, m, env).val :
                 m \in DateAnswers, env \in EnvsFor(QueryBet50) }

\* what the requests of a get_relevant_data call meet
RelFixtureAnswers ==
    FixtureAnswers \cup { Json(JList(<<UpFixtureB, UpFixtureA>>)),
                          Json(JDict(<< <<K_items, JList(<<>>)>> >>)),
                          Json(JDict(<< <<K_totalResults, JNum(0)>> >>)) }
RelOddsAnswers ==
    OddsAnswers \cup { Json(UpQuoteFlat), Json(JDict(<< <<K_odds, JList(<<>>)>> >>)) }

\* the calls drawn: the upstream answer is untrusted whatever the query
\* parameters, so the parameters of a get_relevant_data (tournament, date,
\* fixture id) do not constrain what its two requests meet
ApiCalls(max_len) ==
    { [op |-> "make_request", response |-> r] :
        r \in ApiFixtureAnswers(max_len) \cup ApiOddsAnswers(max_len) }
    \cup { [op |-> "get_fixtures", response |-> r] : r \in ApiFixtureAnswers(max_len) }
    \cup { [op |-> "get_odds", response |-> r] : r \in ApiOddsAnswers(max_len) }
    \cup { [op |-> "get_relevant_data", entities |-> e, fixtures |-> rf, odds |-> ro] :
             e \in RelEntities, rf \in RelFixtureAnswers, ro \in RelOddsAnswers }

\* a call not yet made: `at` is the request it waits for, `stage` the await of
\* make_request it is suspended at, `fixtures` the filtered fixtures of a
\* get_relevant_data
ApiTask(call) ==
    [op |-> call.op, call |-> call, stage |-> "call", fixtures |-> JNull,
     at |-> IF call.op = "get_odds" THEN "get_odds"
            ELSE IF call.op = "make_request" THEN "request"
            ELSE "get_fixtures"]

InitApi ==
    /\ contexts = EmptyDict
    /\ tasks \in { <<ApiTask(c)>> : c \in ApiCalls(MaxDictLen) }
    /\ last = [op |-> "init", step |-> "done"]
    /\ model_loaded = FALSE
    /\ place_bet_bound = FALSE

\* what the request the call in flight waits for meets
ApiAwaited(t) ==
    IF t.op # "get_relevant_data" THEN t.call.response
    ELSE IF t.at = "get_fixtures" THEN t.call.fixtures
    ELSE t.call.odds

\* the call in flight returns `result`
ApiReturned(op, result) ==
    /\ last' = [op |-> op, step |-> "done", call |-> tasks[1].call, result |-> result]
    /\ tasks' = <<>>
    /\ UNCHANGED <<contexts, model_loaded, place_bet_bound>>

\* the call in flight is suspended at the await `stage` of its request `at`
ApiAwaits(at, stage, fixtures) ==
    /\ tasks' = [tasks EXCEPT ![1].at = at, ![1].stage = stage, ![1].fixtures = fixtures]
    /\ last' = [op |-> tasks[1].op, step |-> "await", at |-> at]
    /\ UNCHANGED <<contexts, model_loaded, place_bet_bound>>

\* the call is made and runs up to session.get; get_relevant_data first reads
\* the filters of its fixtures request from the entities
ApiCalled ==
    /\ tasks # <<>> /\ tasks[1].stage = "call"
    /\ \E t \in {tasks[1]} :
         IF t.op = "get_relevant_data" /\ RequestFilters(t.call.entities).raised
         THEN ApiReturned(t.op, RequestFilters(t.call.entities))
         ELSE ApiAwaits(t.at, "get", JNull)

\* session.get answers with a 200 response: make_request awaits response.json()
ApiResponseReceived ==
    /\ tasks # <<>> /\ tasks[1].stage = "get"
    /\ EndsAt(ApiAwaited(tasks[1])) # "get"
    /\ ApiAwaits(tasks[1].at, "json", tasks[1].fixtures)

\* response.json() raises: make_request awaits response.text()
ApiBodyRejected ==
    /\ tasks # <<>> /\ tasks[1].stage = "json"
    /\ EndsAt(ApiAwaited(tasks[1])) = "text"
    /\ ApiAwaits(tasks[1].at, "text", tasks[1].fixtures)

\* the request of the call in flight of `op` ends at the await it is suspended at
RequestEnds(op, at) ==
    /\ tasks # <<>> /\ tasks[1].op = op /\ tasks[1].at = at
    /\ tasks[1].stage = EndsAt(ApiAwaited(tasks[1]))

MakeRequestReturned ==
    /\ RequestEnds("make_request", "request")
    /\ ApiReturned("make_request", MakeRequest(tasks[1].call.response))

GetFixturesReturned ==
    /\ RequestEnds("get_fixtures", "get_fixtures")
    /\ ApiReturned("get_fixtures", GetFixtures(tasks[1].call.response))

GetOddsReturned ==
    /\ RequestEnds("get_odds", "get_odds")
    /\ ApiReturned("get_odds", GetOdds(tasks[1].call.response))

\* the fixtures request of get_relevant_data ends: the team filter, and the
\* odds request is made; an exception of the filter ends the call
ApiFixturesAnswered ==
    /\ RequestEnds("get_relevant_data", "get_fixtures")
    /\ \E fixtures \in {RelevantFixtures(tasks[1].call.entities,
                                         GetFixtures(tasks[1].call.fixtures))} :
         IF fixtures.raised THEN ApiReturned("get_relevant_data", fixtures)
         ELSE ApiAwaits("get_odds", "get", fixtures.val)

\* the odds request of get_relevant_data ends, and the call returns
GetRelevantDataReturned ==
    /\ RequestEnds("get_relevant_data", "get_odds")
    /\ ApiReturned("get_relevant_data",
                Return(RelevantData(tasks[1].fixtures, GetOdds(tasks[1].call.odds))))

NextApi ==
    \/ ApiCalled
    \/ ApiResponseReceived
    \/ ApiBodyRejected
    \/ MakeRequestReturned
    \/ GetFixturesReturned
    \/ GetOddsReturned
    \/ ApiFixturesAnswered
    \/ GetRelevantDataReturned

SpecApi == InitApi /\ [][NextApi]_vars

----------------------------------------------------------------------------
(* The extractor, the normalizer, the selection rule and the synthesizer on  *)
(* their own: one call, drawn with its arguments and with the answer of the  *)
(* Gemini call it makes, and then its return.                                *)

QueryNewsTeam ==
    Str(<<"A","n","a","l","i","z","a"," ","l","a","s"," ","n","o","t","i","c","i","a","s"," ","d","e","l"," ","B","a","r",cCedilla,"a"," ","h","o","y"," ","e","n"," ","l","a"," ","c","h","a","m","p","i","o","n","s",":"," ","g","a","n","a","d","o","r">>)
QueryAnalysis ==
    Str(<<"a","n","a","l","i","z","a"," ","r","e","a","l"," ","m","a","d","r","i","d"," ","v","s"," ","b","a","r","c","a">>)
QueryStats ==
    Str(<<"E","s","t","a","d",iAcute,"s","t","i","c","a","s"," ","d","e"," ","R","i","v","e","r">>)

\* cues of two question pattern groups, and no cue at all
QueryAnalysisStats ==
    Str(<<"a","n","a","l","i","z","a"," ","l","o","s"," ","d","a","t","o","s">>)
QueryStatsWh ==
    Str(<<"d","a","t","o","s",":"," ","q","u","i",eAcute,"n"," ","g","a","n","a">>)
QueryPlain ==
    Str(<<"v","a","m","o","s"," ","r","i","v","e","r">>)

\* words for the away side and the draw next to two bet-type aliases
QueryDrawCue ==
    Str(<<"g","a","n","a"," ","e","l"," ","v","i","s","i","t","a","n","t","e"," ","o"," ","e","m","p","a","t","e",":"," ","g","a","n","a","d","o","r"," ","y"," ","g","o","l","e","s">>)

\* two and three date words
QueryTwoDates ==
    Str(<<"h","o","y"," ","y"," ","m","a",nTilde,"a","n","a"," ","j","u","e","g","a"," ","r","i","v","e","r">>)
QueryThreeDates ==
    Str(<<"r","i","v","e","r"," ","j","u","e","g","a"," ","h","o","y",","," ","m","a",nTilde,"a","n","a"," ","y"," ","e","l"," ","f","i","n"," ","d","e"," ","s","e","m","a","n","a">>)

\* a date in numbers next to a date word, and a date with a month name
QueryNumericDate ==
    Str(<<"h","o","y"," ","1","8","/","0","3","/","2","0","2","4">>)
QueryMonthDate ==
    Str(<<"e","l"," ","5"," ","o","c","t","u","b","r","e"," ","2","0","2","3"," ","j","u","e","g","a"," ","r","i","v","e","r">>)

\* the queries given to extract_entities_enhanced
NlpQueries ==
    Queries \cup BetQueries
        \cup {QueryNewsTeam, QueryAnalysis, QueryStats, QueryAnalysisStats, QueryStatsWh,
              QueryPlain, QueryDrawCue, QueryTwoDates, QueryThreeDates, QueryNumericDate,
              QueryMonthDate}

\* the canonical names of a synonym table
CanonicalNames(table) == { table[i][1] : i \in 1..Len(table) }

\* queries that consist of one canonical name
CanonicalQueries ==
    CanonicalNames(TeamSynonyms) \cup CanonicalNames(TournamentSynonyms)
        \cup CanonicalNames(BetTypeSynonyms)

\* the question type labels that the extraction prompt gives to the model
LabelAnalisis ==
    Str(<<"A","n",aAcute,"l","i","s","i","s"," ","y"," ","R","e","c","o","m","e","n","d","a","c","i",oAcute,"n">>)
LabelEstadisticas == Str(<<"E","s","t","a","d",iAcute,"s","t","i","c","a","s">>)
LabelGeneral ==
    Str(<<"I","n","f","o","r","m","a","c","i",oAcute,"n"," ","G","e","n","e","r","a","l">>)

\* entities of the model that name a team, a tournament and a bet type twice,
\* by two of their aliases
ModelEntitiesTwice ==
    Entities(<<JStr(Str(<<"B","a","r",cCedilla,"a">>)), JStr(Str(<<"b","a","r","c","a">>)),
               JStr(Str(<<"R","e","a","l"," ","M","a","d","r","i","d">>))>>,
             <<JStr(Str(<<"U","C","L">>)), JStr(Str(<<"c","h","a","m","p","i","o","n","s">>))>>,
             <<>>,
             <<JStr(Str(<<"g","a","n","a","d","o","r">>)), JStr(Str(<<"w","i","n","n","e","r">>))>>,
             LabelEstadisticas)

\* entities of the model under its general-information label
ModelEntitiesGeneral ==
    Entities(<<JStr(Str(<<"R","i","v","e","r">>))>>, <<>>, <<>>, <<>>, LabelGeneral)

\* what the Gemini call of the extractor answers: also an object without fields
NlpModelAnswers ==
    ModelAnswers \cup DateAnswers
        \cup { ModelJson(JDict(<<>>)), ModelJson(ModelEntitiesTwice),
               ModelJson(ModelEntitiesGeneral) }

ExtractCalls ==
    { [op |-> "extract_entities_enhanced", query |-> q, m |-> m] :
        q \in NlpQueries \cup CanonicalQueries, m \in NlpModelAnswers }

\* the canonical names and the aliases of a synonym table
NamesOf(table) ==
    UNION { {table[i][1]} \cup { table[i][2][k] : k \in 1..Len(table[i][2]) } :
            i \in 1..Len(table) }

\* the names given to the normalize functions: every name of the three
\* tables, names in other letter case, and names no table holds
NormalizeNames ==
    NamesOf(TeamSynonyms) \cup NamesOf(TournamentSynonyms) \cup NamesOf(BetTypeSynonyms)
    \cup { Str(<<"R","e","a","l"," ","M","a","d","r","i","d">>), Str(<<"R","E","A","L">>),
           Str(<<"B","a","r",cCedilla,"a">>), Str(<<"L","a"," ","L","i","g","a">>), Str(<<"U","C","L">>),
           Str(<<"G","a","n","a","d","o","r">>), Str(<<"H","a","n","d","i","c","a","p">>),
           Str(<<"R","e","a","l"," ","M","a","d","r","i","d"," ","C","F">>),
           Str(<<"e","m","p","a","t","e">>), Str(<<"X","y","z">>), <<>> }

NormalizeCalls ==
    { [op |-> op, name |-> x] :
        op \in {"normalize_team_name", "normalize_tournament_name", "normalize_bet_type"},
        x \in NormalizeNames }

\* the environments of every query given to the extractor
QueryEnvs == [query \in NlpQueries \cup CanonicalQueries |-> EnvsFor(query)]

\* the entities that the deterministic fallback extracts from the queries
FallbackResults ==
    UNION { { ExtractEntitiesEnhanced(q, FALSE, ModelRaises, env).val : env \in QueryEnvs[q] } :
            q \in NlpQueries \cup CanonicalQueries }

\* the entities given to the selection rule: no bet type, one, or several,
\* and those of the deterministic fallback
SelectionEntities ==
    { Entities(<<>>, <<>>, <<>>, [i \in 1..Len(b) |-> JStr(b[i])], InformacionGeneral) :
        b \in { <<>>,
                << Str(<<"e","m","p","a","t","e">>) >>,
                << Str(<<"D","r","a","w">>) >>,
                << Str(<<"v","i","s","i","t","a","n","t","e">>) >>,
                << Str(<<"a","w","a","y">>) >>,
                << Str(<<"a","w","a","y"," ","o","r"," ","d","r","a","w">>) >>,
                << Str(<<"E","m","p","a","t","e"," ","o"," ","v","i","s","i","t","a","n","t","e">>) >>,
                << Str(<<"m","o","n","e","y","l","i","n","e">>) >>,
                << Str(<<"m","o","n","e","y","l","i","n","e">>), Str(<<"e","m","p","a","t","e">>) >> } }
    \cup { JDict(<<>>) }
    \cup FallbackResults

\* the quotes given to the selection rule: a quote, an empty object, None
SelectionQuotes == { UpQuoteA, UpQuoteB, JDict(<<>>), JNull }

SelectionCalls ==
    { [op |-> "_determine_bet_selection", entities |-> e, odds_data |-> o] :
        e \in SelectionEntities, o \in SelectionQuotes }

\* the entities given to the synthesizer: what the extractor returns
SynthEntities ==
    { r.val : r \in { x \in UNION { { ExtractEntitiesEnhanced(q, l, m, env) :
                                        l \in BOOLEAN, m \in NlpModelAnswers,
                                        env \in QueryEnvs[q] } : q \in NlpQueries } :
                      ~x.raised } }

SynthCalls ==
    { [op |-> "_generate_response_with_llm", query |-> q, entities |-> e, llm |-> llm] :
        q \in {QueryStats}, e \in SynthEntities, llm \in LlmAnswers }

NlpCalls == ExtractCalls \cup NormalizeCalls \cup SelectionCalls \cup SynthCalls

\* the call drawn returns `result`
Returned(op, result) ==
    /\ tasks # <<>>
    /\ tasks[1].op = op
    /\ last' = [op |-> op, step |-> "done", call |-> tasks[1], result |-> result]
    /\ tasks' = <<>>
    /\ UNCHANGED <<contexts, model_loaded, place_bet_bound>>

InitNlp ==
    /\ contexts = EmptyDict
    /\ tasks \in { <<c>> : c \in NlpCalls }
    /\ last = [op |-> "init", step |-> "done"]
    /\ model_loaded \in BOOLEAN
    /\ place_bet_bound = FALSE

ExtractEntitiesEnhancedReturned ==
    /\ tasks # <<>>
    /\ tasks[1].op = "extract_entities_enhanced"
    /\ \E env \in QueryEnvs[tasks[1].query] :
           Returned("extract_entities_enhanced",
                    ExtractEntitiesEnhanced(tasks[1].query, model_loaded, tasks[1].m, env))

NormalizeTeamNameReturned ==
    Returned("normalize_team_name", NormalizeTeamName(tasks[1].name))

NormalizeTournamentNameReturned ==
    Returned("normalize_tournament_name", NormalizeTournamentName(tasks[1].name))

NormalizeBetTypeReturned ==
    Returned("normalize_bet_type", NormalizeBetType(tasks[1].name))

DetermineBetSelectionReturned ==
    Returned("_determine_bet_selection",
             DetermineBetSelection(tasks[1].entities, tasks[1].odds_data))

GenerateResponseWithLlmReturned ==
    Returned("_generate_response_with_llm",
             GenerateResponseWithLlm(tasks[1].query, tasks[1].entities, model_loaded,
                                     tasks[1].llm))

NextNlp ==
    \/ ExtractEntitiesEnhancedReturned
    \/ NormalizeTeamNameReturned
    \/ NormalizeTournamentNameReturned
    \/ NormalizeBetTypeReturned
    \/ DetermineBetSelectionReturned
    \/ GenerateResponseWithLlmReturned

SpecNlp == InitNlp /\ [][NextNlp]_vars

----------------------------------------------------------------------------
(* Properties of the betting state machine and of process_query (SpecBet,  *)
(* SpecTurn, SpecRace)                                                      *)

\* the step taken last is the return of a call of `op`
Done(op) == last.step = "done" /\ last.op = op

\* the step taken last is the return of a confirmation: a process_query turn
\* that took the confirmation short-circuit on a pending bet
ConfirmationDone == Done("process_query") /\ last.path = "confirm" /\ Truthy(last.before)

\* C1: process_betting_query on a session without a pending bet, for a query
\* with a positive stake and reconciled odds with a matching quote, stores
\* the pending bet of that (first matching) quote with its market type,
\* selection and stake; for 'Apuesta $50 a Barcelona' and the quote
\* {fixture_id: 1, Barcelona, Real Madrid, home_win 2.1} the stored bet has
\* stake 50, selection home_win and potential winnings 105.0
C1_ProposalStored ==
    (Done("process_betting_query") /\ ~Truthy(last.before) /\ Truthy(last.stake)
        /\ last.quote # JNull) =>
        LET bet == PendingBet(contexts, last.session_id)
        IN  /\ Truthy(bet)
            /\ Get(bet, K_fixture_id) # JNull
            /\ Get(bet, K_fixture_id) \in {Get(last.quote, K_id), Get(last.quote, K_fixture_id)}
            /\ Has(bet, K_market_type) /\ Has(bet, K_selection)
            /\ Get(bet, K_stake) = last.stake
            /\ (last.query = QueryBet50 /\ last.quote = DemoOdds.xs[1]) =>
                    /\ Get(bet, K_stake) = JNum(50)
                    /\ Get(bet, K_selection) = JStr(Str(<<"h","o","m","e","_","w","i","n">>))
                    /\ Get(bet, K_potential_winnings) = JDec(10500)

\* C2: after a confirmation returns, its session holds no pending bet,
\* whatever the placement call did
C2_ConfirmationClears ==
    ConfirmationDone => ~Truthy(PendingBet(contexts, last.session_id))

\* C3: a confirmation makes exactly one placement call, with the fields of
\* the stored pending bet, and a confirmation that follows it in the same
\* session makes no further call
C3_ExactlyOnePlacementCall ==
    [][ /\ ConfirmationDone' =>
            /\ last'.calls = 1
            /\ PlaceBetArgs(last'.bet) = PlaceBetArgs(last'.before)
        /\ ~ /\ ConfirmationDone /\ last.calls = 1
              /\ last'.step = "await" /\ last'.call # JNull
              /\ last'.session_id = last.session_id ]_vars

\* C4: a process_query turn on a betting query with a stake, when the
\* reconciled odds hold a quote for it, goes through the betting state
\* machine and leaves the session awaiting confirmation
C4_BettingIntentRouted ==
    (Done("process_query") /\ last.query = QueryBet50 /\ ~last.raised
        /\ last.odds = JList(<<UpQuoteA, UpQuoteB>>)) =>
        Truthy(PendingBet(contexts, last.session_id))

\* C5: with a confirmation and a proposal of one session in flight together,
\* the confirmation clears no pending bet other than the one it read and
\* placed, so that a proposal written meanwhile is not lost
C5_ConfirmClearsOnlyItsBet ==
    (last.step = "done" /\ last.op \in {"process_query", "confirm_bet"}
        /\ last.path = "confirm" /\ last.calls = 1
        /\ Truthy(last.before) /\ ~Truthy(PendingBet(contexts, last.session_id))) =>
        last.before = last.bet

\* C6: process_query never raises and returns a text; when a step of the
\* turn raised, the text is the fixed technical-difficulties message, which
\* holds nothing of the cause
C6_ProcessQueryNeverRaises ==
    Done("process_query") =>
        /\ ~last.out.raised
        /\ "kind" \in DOMAIN last.out.val
        /\ last.raised => last.out.val = ErrorResponse
        /\ last.path \in {"extract", "reconcile"} => last.raised

\* a turn whose synthesis raised returned the fixed message
C6_Witness ==
    /\ Done("process_query")
    /\ last.path = "synthesis" /\ last.raised
    /\ last.out = Return(ErrorResponse)

\* the step taken last is the return of a process_betting_query call
BettingDone == Done("process_betting_query")

\* that call returned a bet proposal
Proposed == BettingDone /\ ~last.out.raised /\ last.out.val.kind = "proposal"

\* the query of the step taken last holds no digit, so that no stake parses
NoStakeInQuery == \A i \in 1..Len(last.query) : ~IsDigit(last.query[i])

\* C15 as stated: for a betting query without a parseable stake
\* process_betting_query leaves the pending bet of the session as it was and
\* answers with the message asking for the stake
C15_NoStakeAsStated ==
    (BettingDone /\ NoStakeInQuery) =>
        /\ PendingBet(contexts, last.session_id) = last.before
        /\ last.out = Return(NeedStakeResponse)

\* the quotes the call in `last` went on with, or the exception raised on
\* the way to them: that of get_relevant_data, or that of the partial-match
\* retry over the quotes
QuotesFound ==
    IF last.relevant.raised THEN last.relevant
    ELSE FilteredOdds(Get(last.relevant.val, K_odds), last.entities)

\* C15, amended: such a query leaves the pending bet as it was and never
\* gets a proposal.  The call raises exactly when get_relevant_data raises or
\* the partial-match retry raises on a quote, and then that exception goes to
\* the caller with no quote matched; otherwise its answer is the message
\* asking for the stake if a quote matched and the no-odds message if none did
C15_NoStakeNoProposal ==
    (BettingDone /\ NoStakeInQuery) =>
        /\ PendingBet(contexts, last.session_id) = last.before
        /\ IF QuotesFound.raised
           THEN last.out = QuotesFound /\ last.quote = JNull
           ELSE last.out = Return(IF last.quote = JNull THEN NoOddsResponse
                                  ELSE NeedStakeResponse)
        /\ (last.quote = JNull) = (QuotesFound.raised \/ QuotesFound.val = <<>>)

\* a query without a stake met a matching quote on a session without a
\* pending bet, and was asked for the stake
C15_Witness ==
    /\ BettingDone /\ last.query = QueryNoStake
    /\ last.quote = UpQuoteA
    /\ last.out = Return(NeedStakeResponse)
    /\ ~Truthy(last.before) /\ ~Truthy(PendingBet(contexts, last.session_id))

\* stake times price in hundredths; the price is 1 when the quote has none
\* for the selection
WinningsOf(bet, quote) ==
    LET key == Item(bet, K_selection).s
        prices == Item(quote, K_odds)
        stake == Item(bet, K_stake).n
    IN  IF ~Has(prices, key) THEN stake * 100
        ELSE IF Item(prices, key).t = "dec" THEN stake * Item(prices, key).h
        ELSE stake * Item(prices, key).n * 100

\* C16: the potential winnings of a stored pending bet are its stake times
\* the matched quote's price for its selection, times 1 when the quote has no
\* price for the selection; the stake of every stored pending bet is positive
C16_PotentialWinnings ==
    /\ Proposed =>
          LET bet == PendingBet(contexts, last.session_id)
          IN  /\ Item(bet, K_stake) = last.stake
              /\ Item(bet, K_potential_winnings) = JDec(WinningsOf(bet, last.quote))
    /\ \A session_id \in DOMAIN contexts :
          Truthy(PendingBet(contexts, session_id)) =>
              /\ Item(PendingBet(contexts, session_id), K_stake).t = "num"
              /\ Item(PendingBet(contexts, session_id), K_stake).n > 0

\* 20 on a quote without a home_win price was stored with winnings 20.00
C16_Witness ==
    /\ Proposed /\ last.query = QueryBet20 /\ last.quote = UpQuoteB
    /\ ~Has(Item(last.quote, K_odds), K_home_win)
    /\ Item(PendingBet(contexts, last.session_id), K_selection)
           = JStr(Str(<<"h","o","m","e","_","w","i","n">>))
    /\ Item(PendingBet(contexts, last.session_id), K_potential_winnings) = JDec(2000)

\* C18: a session holds one pending bet at most; a proposal made while
\* another is pending replaces it, and a confirmation asks the placement of
\* the bet stored last and of no other
C18_LastWriteWins ==
    /\ \A session_id \in DOMAIN contexts :
          LET bet == PendingBet(contexts, session_id)
          IN  bet = JNull \/ (IsDict(bet) /\ Has(bet, K_fixture_id) /\ Has(bet, K_stake))
    /\ Proposed =>
          LET bet == PendingBet(contexts, last.session_id)
          IN  /\ Item(bet, K_fixture_id) = Item(last.quote, K_id)
              /\ Item(bet, K_stake) = last.stake
    /\ (last.step = "await" /\ last.call # JNull) =>
          last.call.args = PlaceBetArgs(PendingBet(contexts, last.session_id))

\* a proposal replaced a different pending bet of its session
C18_Witness ==
    /\ Proposed /\ Truthy(last.before)
    /\ Item(last.before, K_fixture_id) # Item(last.quote, K_id)
    /\ PendingBet(contexts, last.session_id) # last.before
    /\ Item(PendingBet(contexts, last.session_id), K_fixture_id) = Item(last.quote, K_id)

\* C19 as stated: a reference to a session id by get_context creates the
\* entry of the session
C19_CreatedOnFirstReference ==
    Done("get_context") => last.session_id \in DOMAIN contexts

\* the step taken last ran update_context: a caller called it, or a handler
\* stored a proposal, cleared a pending bet after a placement answer, or
\* stored the entities of a turn
RanUpdateContext ==
    \/ Done("update_context")
    \/ Proposed
    \/ last.step = "done" /\ last.op \in {"process_query", "confirm_bet"}
          /\ last.path = "confirm" /\ last.calls = 1 /\ ~last.raised
    \/ Done("process_query") /\ last.path = "synthesis" /\ ~last.raised

\* C19, amended: get_context leaves the store as it is, an entry is created
\* by update_context only (called by a caller or by a handler, for the session
\* it is called with), and an entry that exists is removed by clear_context
\* only
C19_ContextLifecycle ==
    [][ /\ last'.op = "get_context" => contexts' = contexts
        /\ (DOMAIN contexts' \ DOMAIN contexts) # {} =>
              /\ RanUpdateContext'
              /\ DOMAIN contexts' \ DOMAIN contexts = {last'.session_id}
        /\ (DOMAIN contexts \ DOMAIN contexts') # {} =>
              /\ last'.op = "clear_context"
              /\ DOMAIN contexts \ DOMAIN contexts' = {last'.session_id} ]_vars

\* get_context was called for a session without an entry while another
\* session has one, and returned the empty context
C19_Witness ==
    /\ Done("get_context")
    /\ last.session_id \notin DOMAIN contexts
    /\ DOMAIN contexts # {}
    /\ last.result = EmptyDict

\* the placement of the confirmation in `last` failed: the call raised (or
\* could not be made), or returned nothing, or returned success = false
PlacementFailed ==
    \/ last.calls = 0
    \/ /\ last.calls = 1
       /\ \/ last.answer.raised
          \/ ~Truthy(last.answer.val)
          \/ ~Truthy(Get(last.answer.val, K_success))

\* C20: when the placement of a confirmation fails, the turn answers with
\* the bet-placement failure message
C20_PlacementFailureMessage ==
    (ConfirmationDone /\ PlacementFailed) => last.out = Return(PlacementFailedResponse)

----------------------------------------------------------------------------
(* Properties of the data client and the reconciler (SpecApi) *)

ApiDone(op) == last.step = "done" /\ last.op = op

\* the body of the answer the call in `last` met (None for a transport failure)
ApiBody == IF last.call.response.kind = "json" THEN last.call.response.body ELSE JNull

\* C7: get_relevant_data never returns a result whose fixtures list and odds
\* list are both empty, whatever the upstream answers to the two requests
C7_NeverBothEmpty ==
    (ApiDone("get_relevant_data") /\ ~last.result.raised) =>
        \/ Truthy(Get(last.result.val, K_fixtures))
        \/ Truthy(Get(last.result.val, K_odds))

\* the list the stated shape resolution finds in an object under the keys `keys`
ResolvedList(body, keys) ==
    IF FirstListUnder(body, keys) # JNull THEN FirstListUnder(body, keys)
    ELSE FirstListValue(body)

\* C8 as stated: get_fixtures returns a list answer unchanged, the list under
\* the first priority key (else the first list-valued field) of an object
\* answer, and the demonstration fixtures for an absent answer or a failure
C8_ShapeResolutionAsStated ==
    ApiDone("get_fixtures") =>
        /\ IsList(ApiBody) => last.result = ApiBody
        /\ (IsDict(ApiBody) /\ ResolvedList(ApiBody, FixtureKeys) # JNull) =>
                last.result = ResolvedList(ApiBody, FixtureKeys)
        /\ ApiBody = JNull => last.result = DemoFixtures

\* C8, amended: the same, except that an object whose totalResults field
\* equals 0 yields the demonstration fixtures whatever lists it holds; an
\* object without a list-valued field and a scalar yield them as well
C8_ShapeResolution ==
    ApiDone("get_fixtures") =>
        /\ IsList(ApiBody) => last.result = ApiBody
        /\ IsDict(ApiBody) =>
                last.result =
                    IF EqualsZero(Get(ApiBody, K_totalResults)) THEN DemoFixtures
                    ELSE IF ResolvedList(ApiBody, FixtureKeys) # JNull
                    THEN ResolvedList(ApiBody, FixtureKeys)
                    ELSE DemoFixtures
        /\ (~IsList(ApiBody) /\ ~IsDict(ApiBody)) => last.result = DemoFixtures

\* an object with totalResults 0 and a list under a priority key was answered
\* with the demonstration fixtures
C8_Witness ==
    /\ ApiDone("get_fixtures")
    /\ ApiBody = JDict(<< <<K_data, JList(<<UpFixtureA>>)>>, <<K_totalResults, JNum(0)>> >>)
    /\ last.result = DemoFixtures

OddsKeys == <<K_odds, K_data, K_prices, K_quotes>>

\* C9: for an object answer get_odds returns the list under the first of the
\* keys odds, data, prices, quotes (else the first list-valued field), so that
\* the elements are the quotes and not the object that holds them
C9_SameNormalizationAsStated ==
    (ApiDone("get_odds") /\ IsDict(ApiBody) /\ ResolvedList(ApiBody, OddsKeys) # JNull) =>
        last.result = ResolvedList(ApiBody, OddsKeys)

\* C10: for every transport failure make_request returns None without
\* raising, and get_fixtures and get_odds return their demonstration data
C10_TransportFailuresAbsorbed ==
    /\ (ApiDone("make_request") /\ last.call.response \in TransportFailures) =>
            last.result = Return(JNull)
    /\ (ApiDone("get_fixtures") /\ last.call.response \in TransportFailures) =>
            last.result = DemoFixtures
    /\ (ApiDone("get_odds") /\ last.call.response \in TransportFailures) =>
            last.result = DemoOdds

\* a 200 response with a body that is no JSON was answered with None
C10_Witness ==
    /\ ApiDone("make_request")
    /\ last.call.response = [kind |-> "non_json"]
    /\ last.result = Return(JNull)

----------------------------------------------------------------------------
(* Properties of the extractor, the normalizer, the selection rule and the   *)
(* synthesizer (SpecNlp)                                                     *)

\* a list of texts
IsTextList(v) == IsList(v) /\ \A i \in 1..Len(v.xs) : IsStr(v.xs[i])

\* the five-field Entities shape: four lists of texts and a text
IsEntitiesShape(v) ==
    /\ IsDict(v)
    /\ KeysOf(v.kv) = {K_teams, K_tournaments, K_dates, K_bet_types, K_question_type}
    /\ IsTextList(Item(v, K_teams)) /\ IsTextList(Item(v, K_tournaments))
    /\ IsTextList(Item(v, K_dates)) /\ IsTextList(Item(v, K_bet_types))
    /\ IsStr(Item(v, K_question_type))

\* the extraction in `last` ran the deterministic fallback: the model is
\* absent, or its call raised or answered with a text that is no JSON
FallbackRan == ~model_loaded \/ last.call.m = ModelRaises

\* the query of the call in `last` holds a non-sports keyword
HoldsNonSportsKeyword == AnyIn(NonSportsKeywords, Lower(last.call.query))

\* what the deterministic fallback can give for a query, normalized
FallbackEntities(query) ==
    { ExtractEntitiesEnhanced(query, FALSE, ModelRaises, env) : env \in QueryEnvs[query] }

\* C11: whenever the model is absent, its call raises, its text is no JSON,
\* or its JSON is not of the five-field Entities shape (a list, an object
\* lacking fields), extract_entities_enhanced does not raise and returns the
\* normalized entities of the deterministic fallback for the query
C11_ExtractionFallsBack ==
    (Done("extract_entities_enhanced")
        /\ (FallbackRan \/ ~IsEntitiesShape(last.call.m.body))) =>
        /\ ~last.result.raised
        /\ last.result \in FallbackEntities(last.call.query)

\* C12 as stated: for a query that holds a non-sports keyword the extraction
\* returns question_type non_sports and empty teams, tournaments, dates and
\* bet types, whatever else the query holds
C12_NonSportsAsStated ==
    (Done("extract_entities_enhanced") /\ HoldsNonSportsKeyword) =>
        last.result = Return(Entities(<<>>, <<>>, <<>>, <<>>, NonSports))

\* C12, amended: the same whenever the deterministic fallback ran; entities
\* that the model returned are not checked against the keyword list
C12_FallbackNonSports ==
    (Done("extract_entities_enhanced") /\ HoldsNonSportsKeyword /\ FallbackRan) =>
        last.result = Return(Entities(<<>>, <<>>, <<>>, <<>>, NonSports))

\* a query with a non-sports keyword, a team alias, a tournament alias, a
\* date word, a bet type and a question cue was extracted by the fallback
C12_Witness ==
    /\ Done("extract_entities_enhanced")
    /\ last.call.query = QueryNewsTeam /\ ~model_loaded
    /\ last.result = Return(Entities(<<>>, <<>>, <<>>, <<>>, NonSports))

NormalizeOps == {"normalize_team_name", "normalize_tournament_name", "normalize_bet_type"}

\* the synonym table of a normalize function
SynonymsOf(op) ==
    CASE op = "normalize_team_name" -> TeamSynonyms
      [] op = "normalize_tournament_name" -> TournamentSynonyms
      [] op = "normalize_bet_type" -> BetTypeSynonyms

\* the normalize function `op` applied to x
NormalizeBy(op, x) ==
    CASE op = "normalize_team_name" -> NormalizeTeamName(x)
      [] op = "normalize_tournament_name" -> NormalizeTournamentName(x)
      [] op = "normalize_bet_type" -> NormalizeBetType(x)

\* x, lower-cased, is a canonical name or an alias of the table
NameKnown(table, x) == Lower(x) \in NamesOf(table)

\* C13: each normalize function is idempotent, normalize(normalize(x)) =
\* normalize(x), and returns unchanged a name that, case-insensitively, is
\* no alias and no canonical name of its table
C13_NormalizeIdempotent ==
    (last.step = "done" /\ last.op \in NormalizeOps) =>
        /\ NormalizeBy(last.op, last.result) = last.result
        /\ ~NameKnown(SynonymsOf(last.op), last.call.name) => last.result = last.call.name

\* an alias in another letter case was normalized to its canonical name,
\* which normalizes to itself
C13_Witness ==
    /\ Done("normalize_team_name")
    /\ last.call.name = Str(<<"R","E","A","L">>)
    /\ last.result = Str(<<"r","e","a","l"," ","m","a","d","r","i","d">>)
    /\ NormalizeTeamName(last.result) = last.result

\* the model call of the synthesis in `last` is unavailable or raised
SynthesisModelFailed == ~model_loaded \/ last.call.llm.kind = "raise"

\* the section headers every statistics reply holds, in their order
FixedStatsHeaders ==
    <<"ANALISIS ESTADISTICO COMPLETO", "Metricas Clave Analizadas",
      "Datos Estadisticos Relevantes", "Tendencias Identificadas", "Aplicacion Practica">>

\* the template _generate_resolutive_fallback selects for a question type
TemplateOf(question_type) ==
    IF question_type = JStr(AnalisisYRecomendacion) THEN "analysis"
    ELSE IF question_type = JStr(Estadisticas) THEN "stats"
    ELSE "general"

FirstBetTypeText ==
    IF Truthy(Get(last.call.entities, K_bet_types))
    THEN Lower(Item(last.call.entities, K_bet_types).xs[1].s)
    ELSE <<>>

DrawCue(text) == Contains(text, Str(<<"d","r","a","w">>)) \/ Contains(text, Str(<<"e","m","p","a","t","e">>))
AwayCue(text) ==
    Contains(text, Str(<<"a","w","a","y">>)) \/ Contains(text, Str(<<"v","i","s","i","t","a","n","t","e">>))

\* the selection the fixed order gives for a bet-type text
SelectionInOrder(text) ==
    IF DrawCue(text) THEN K_draw ELSE IF AwayCue(text) THEN K_away_win ELSE K_home_win

\* C17 as stated: the selection is draw when the bet-type text holds a draw
\* cue, away_win when it holds an away cue and no draw cue, home_win in every
\* other case, whatever the quote
C17_SelectionOrderAsStated ==
    Done("_determine_bet_selection") => last.result = SelectionInOrder(FirstBetTypeText)

\* C17, amended: for a quote that is a non-empty object the selection is
\* decided on the first extracted bet type in the order draw, away, home;
\* for an empty quote or one that is no object it is home_win whatever the
\* bet type
C17_SelectionOrder ==
    Done("_determine_bet_selection") =>
        last.result = IF IsDict(last.call.odds_data) /\ Truthy(last.call.odds_data)
                      THEN SelectionInOrder(FirstBetTypeText)
                      ELSE K_home_win

\* a bet type holding an away cue and a draw cue was decided as draw
C17_Witness ==
    /\ Done("_determine_bet_selection")
    /\ last.call.odds_data = UpQuoteA
    /\ FirstBetTypeText = Str(<<"a","w","a","y"," ","o","r"," ","d","r","a","w">>)
    /\ last.result = K_draw

\* the three lists of names that extract_entities_enhanced normalizes
NameFields == {K_teams, K_tournaments, K_bet_types}

\* the synonym table of a list of names
TableOf(key) ==
    IF key = K_teams THEN TeamSynonyms
    ELSE IF key = K_tournaments THEN TournamentSynonyms
    ELSE BetTypeSynonyms

\* no text occurs twice in the list
NoDuplicates(xs) == \A i, j \in 1..Len(xs) : xs[i] = xs[j] => i = j

\* what extract_entities gave to the normalization passes of the call in `last`
BasicEntities(env) == ExtractEntities(last.call.query, model_loaded, last.call.m, env)

\* an extraction returned entities of the five-field shape
ExtractionDone ==
    /\ Done("extract_entities_enhanced")
    /\ ~last.result.raised
    /\ IsEntitiesShape(last.result.val)

\* C21: after either extraction strategy every value of the teams,
\* tournaments and bet_types lists is a fixed point of its normalize
\* function, the lists keep the order of the extracted values, and no name
\* occurs twice in a list
C21_NormalizedOrderedSets ==
    ExtractionDone =>
        \A key \in NameFields, env \in QueryEnvs[last.call.query] :
            LET xs  == Item(last.result.val, key).xs
                raw == Item(BasicEntities(env), key).xs
            IN  /\ \A i \in 1..Len(xs) : Normalize(TableOf(key), xs[i].s) = xs[i].s
                /\ Len(xs) = Len(raw)
                /\ \A i \in 1..Len(xs) : xs[i].s = Normalize(TableOf(key), raw[i].s)
                /\ NoDuplicates(xs)

\* the query of the call in `last` holds a cue of the g-th question pattern
\* group: 1 analysis and recommendation, 2 statistics, 3 general information
HoldsCue(g) == AnyIn(QuestionPatterns[g][2], Lower(last.call.query))

\* C22: in the deterministic fallback, for a query without a non-sports
\* keyword, the question type is that of the first group with a cue in the
\* order analysis and recommendation, statistics, general information, and
\* the general-information type when the query holds no cue
C22_QuestionTypePriority ==
    (ExtractionDone /\ FallbackRan /\ ~HoldsNonSportsKeyword) =>
        Item(last.result.val, K_question_type) =
            JStr(IF HoldsCue(1) THEN AnalisisYRecomendacion
                 ELSE IF HoldsCue(2) THEN Estadisticas
                 ELSE InformacionGeneral)

\* the fallback classified a query with an analysis cue and a statistics cue
C22_Witness ==
    /\ ExtractionDone /\ FallbackRan /\ ~HoldsNonSportsKeyword
    /\ HoldsCue(1) /\ HoldsCue(2)
    /\ Item(last.result.val, K_question_type) = JStr(AnalisisYRecomendacion)

\* the query of the call in `last` is a canonical name of the table of key
IsCanonicalQuery(key) == last.call.query \in CanonicalNames(TableOf(key))

\* C28: the deterministic fallback, given a query that consists of a
\* canonical team, tournament or bet-type name of the synonym tables (and
\* holds no non-sports keyword), returns that name in the entity list of its
\* kind
C28_CanonicalNameFound ==
    \A key \in NameFields :
        (ExtractionDone /\ FallbackRan /\ ~HoldsNonSportsKeyword /\ IsCanonicalQuery(key)) =>
            InList(JStr(last.call.query), Item(last.result.val, key).xs)

\* a synthesis fell back on entities that carry the question type label
ModelLabelFellBack(label) ==
    /\ Done("_generate_response_with_llm") /\ SynthesisModelFailed
    /\ IsEntitiesShape(last.call.entities)
    /\ Item(last.call.entities, K_question_type) = JStr(label)

\* C29: when the entities carry one of the question type labels that the
\* extraction prompt defines for the model and synthesis falls back, the
\* fallback synthesizer takes the template of that category: the analysis
\* template for the analysis label, the statistics template for the
\* statistics label, the general template for the general label
C29_ModelLabelSelectsTemplate ==
    /\ ModelLabelFellBack(LabelAnalisis) =>
           last.result = Return(AnalysisResponse(last.call.entities))
    /\ ModelLabelFellBack(LabelEstadisticas) =>
           last.result = Return(StatsResponse(last.call.entities))
    /\ ModelLabelFellBack(LabelGeneral) =>
           last.result = Return(GeneralResponse(last.call.entities, last.call.query))

\* the canonical bet-type names
FallbackBetTypes ==
    { Str(<<"m","o","n","e","y","l","i","n","e">>), Str(<<"s","p","r","e","a","d">>),
      Str(<<"o","v","e","r","/","u","n","d","e","r">>), Str(<<"p","a","r","l","a","y">>),
      Str(<<"p","r","o","p"," ","b","e","t">>) }

\* C30: the bet types that the deterministic fallback extracts are among the
\* canonical names moneyline, spread, over/under, parlay and prop bet, and
\* the selection made from entities of the fallback is home_win for every
\* quote: it is never draw or away_win
C30_FallbackSelectsHome ==
    /\ (ExtractionDone /\ FallbackRan) =>
           \A i \in 1..Len(Item(last.result.val, K_bet_types).xs) :
               Item(last.result.val, K_bet_types).xs[i].s \in FallbackBetTypes
    /\ (Done("_determine_bet_selection") /\ last.call.entities \in FallbackResults) =>
           last.result = K_home_win

\* the selection was made on a full quote from fallback entities whose query
\* names the away side and the draw
C30_Witness ==
    /\ Done("_determine_bet_selection")
    /\ Return(last.call.entities) \in FallbackEntities(QueryDrawCue)
    /\ Truthy(Item(last.call.entities, K_bet_types))
    /\ last.call.odds_data = UpQuoteA
    /\ last.result = K_home_win

----------------------------------------------------------------------------
(* Frame properties of process_query and of the context store (SpecTurn,   *)
(* Spec, SpecRace)                                                          *)

\* the step taken is a process_query turn that returned on the given path
TurnReturns(path) ==
    /\ last'.op = "process_query" /\ last'.step = "done" /\ last'.path = path

\* a process_query turn waits for the upstream data with entities that are
\* classified non_sports
NonSportsDispatched ==
    \E i \in 1..Len(tasks) :
        /\ tasks[i].op = "process_query" /\ tasks[i].at \in {"get_fixtures", "get_odds"}
        /\ Get(tasks[i].entities, K_question_type) = JStr(NonSports)

\* C23: a turn whose entities are classified non_sports returns the fixed
\* scope-redirection text before any dispatch: no upstream request and no
\* synthesis is started for it and the contexts of the sessions are
\* unchanged
C23_NonSportsFrame ==
    [][/\ TurnReturns("non_sports") =>
            /\ last'.out = Return(NonSportsResponse)
            /\ tasks' = tasks
            /\ contexts' = contexts
       /\ ~NonSportsDispatched']_vars

\* a non-sports turn returned in a session that holds a pending bet and
\* last-mentioned teams
C23_Witness ==
    /\ Done("process_query") /\ last.path = "non_sports"
    /\ Truthy(last.before)
    /\ Truthy(ContextGet(GetContext(contexts, last.session_id), "last_mentioned_teams"))

\* the value a session's context holds under a key, None when it has none
Field(cs, session_id, key) == ContextGet(GetContext(cs, session_id), key)

\* the context keys that _update_context writes
MentionKeys == {"last_mentioned_teams", "last_mentioned_tournament", "preferred_bet_types"}

\* the entity list that decides the update of a context key
EntityList(entities, key) ==
    IF key = "last_mentioned_teams" THEN Get(entities, K_teams)
    ELSE IF key = "last_mentioned_tournament" THEN Get(entities, K_tournaments)
    ELSE Get(entities, K_bet_types)

\* the value a non-empty entity list puts under its context key: the list,
\* and for the tournament its first element
MentionOf(entities, key) ==
    IF key = "last_mentioned_tournament" THEN EntityList(entities, key).xs[1]
    ELSE EntityList(entities, key)

\* the step taken is the return of a process_query turn
TurnDone == last'.op = "process_query" /\ last'.step = "done"

\* the step taken is the return of a turn that synthesized its response
TurnCompleted == TurnReturns("synthesis") /\ ~last'.raised

\* the request in flight that the step taken returned from
ReturningTask == tasks[CHOOSE i \in 1..Len(tasks) : tasks' = Remove(tasks, i)]

\* C24: the context is updated only after the response has been
\* synthesized.  A turn that ends on the error, no-data, non-sports or
\* confirmation path leaves the last-mentioned and preferred fields of every
\* session unchanged; a completed turn overwrites each of the three fields
\* of its session only when the entity list of that field is non-empty,
\* keeps its value otherwise, and leaves the pending bet unchanged
C24_ContextUpdateFrame ==
    [][TurnDone =>
        IF TurnCompleted
        THEN \E session_id \in {last'.session_id}, entities \in {ReturningTask.entities} :
                 /\ \A key \in MentionKeys :
                        Field(contexts', session_id, key) =
                            IF Truthy(EntityList(entities, key))
                            THEN MentionOf(entities, key)
                            ELSE Field(contexts, session_id, key)
                 /\ PendingBet(contexts', session_id) = PendingBet(contexts, session_id)
        ELSE \A session_id \in Sessions, key \in MentionKeys :
                 Field(contexts', session_id, key) = Field(contexts, session_id, key)]_vars

\* a completed turn that extracted no team returned in a session that holds
\* last-mentioned teams, a last-mentioned tournament and a pending bet
C24_Witness ==
    /\ Done("process_query") /\ last.path = "synthesis" /\ ~last.raised
    /\ last.out.val.kind = "general" /\ last.out.val.teams = JList(<<>>)
    /\ Truthy(Field(contexts, last.session_id, "last_mentioned_teams"))
    /\ Truthy(Field(contexts, last.session_id, "last_mentioned_tournament"))
    /\ Truthy(last.before) /\ PendingBet(contexts, last.session_id) = last.before

\* the step recorded in the event e started a placement call
StartsPlacement(e) == e.step = "await" /\ e.call # JNull

\* C26: sessions are isolated.  No step of an operation performed for one
\* session (get_context, update_context by a caller or inside a turn,
\* clear_context, process_query, process_betting_query, confirm_bet) creates, changes or
\* removes the context of another session, and the placement call of a
\* confirmation carries the pending bet of its own session
C26_SessionIsolation ==
    [][/\ \A other \in Sessions \ {last'.session_id} :
              /\ (other \in DOMAIN contexts') = (other \in DOMAIN contexts)
              /\ GetContext(contexts', other) = GetContext(contexts, other)
       /\ StartsPlacement(last') =>
              last'.call = PlaceBetCall(last'.session_id,
                                        PendingBet(contexts, last'.session_id))]_vars

\* a confirmation placed and cleared the pending bet of its session while
\* the other session holds a different pending bet and last-mentioned teams
C26_Witness ==
    /\ ConfirmationDone /\ last.calls = 1
    /\ ~Truthy(PendingBet(contexts, last.session_id))
    /\ \E other \in Sessions \ {last.session_id} :
           /\ Truthy(PendingBet(contexts, other))
           /\ PendingBet(contexts, other) # last.bet
           /\ Truthy(Field(contexts, other, "last_mentioned_teams"))

\* the step taken is a call of process_query with the query that made a
\* request wait for a network call
TurnAwaits(query) ==
    /\ last'.op = "process_query" /\ last'.step = "await"
    /\ Len(tasks') = Len(tasks) + 1
    /\ tasks'[Len(tasks')].query = query

\* the step taken is a call of process_query with the query that returned
\* before any network call
TurnReturnsAtOnce(query) ==
    /\ TurnDone /\ tasks' = tasks /\ last'.query = query

\* the step taken is a step of a process_query turn that is no placement
\* call and no return on the confirmation path
TurnStep ==
    /\ last'.op = "process_query"
    /\ IF last'.step = "await" THEN last'.call = JNull ELSE last'.path # "confirm"

\* a confirmation keyword on a session without a pending bet: the call of
\* process_query makes no placement call and goes to extraction and on to
\* the fixtures request, or returns from extraction, and confirm_bet returns
\* its no-pending text without a call; neither changes a context
KeywordWithoutPendingBet ==
    /\ (TurnAwaits(QuerySi) /\ ~Truthy(PendingBet(contexts, last'.session_id))) =>
         /\ ~StartsPlacement(last')
         /\ tasks'[Len(tasks')].at = "get_fixtures"
         /\ Return(tasks'[Len(tasks')].entities) \in
                UNION { Extracted[QuerySi][model_loaded][m] : m \in ModelAnswers }
         /\ contexts' = contexts
    /\ (TurnReturnsAtOnce(QuerySi) /\ ~Truthy(PendingBet(contexts, last'.session_id))) =>
         /\ last'.path \in {"extract", "non_sports"}
         /\ last'.calls = 0
         /\ contexts' = contexts
    /\ (last'.op = "confirm_bet" /\ last'.step = "done"
           /\ ~Truthy(PendingBet(contexts, last'.session_id))
           /\ tasks' = tasks) =>
         /\ last'.out = Return(NoPendingResponse)
         /\ last'.calls = 0
         /\ contexts' = contexts

----------------------------------------------------------------------------
(* Two confirmations of one session in flight together (SpecRace)           *)

\* C25: two confirmations of one session that holds one pending bet,
\* interleaved at the await of the placement call, make at most one
\* placement call for that bet: a confirmation that has started its call is
\* never followed at once by a second call with the same bet
C25_AtMostOnePlacementCall ==
    [][~ /\ StartsPlacement(last) /\ StartsPlacement(last')
         /\ Len(tasks') = Len(tasks) + 1
         /\ last'.call = last.call]_vars

============================================================================
